---- MODULE Spec2Model ----
(***************************************************************************)
(* Verification model of the data cleaning / relevance scoring pipeline of *)
(* ai_impact_data_collection.                                              *)
(*                                                                         *)
(* Text is a sequence of one-character strings.  A Python dict is a        *)
(* function whose DOMAIN is its key set, so  key in d  is  key \in DOMAIN  *)
(* d  and  d.get(key, default)  is Get(d, key, default).                   *)
(***************************************************************************)
EXTENDS Integers, Sequences, FiniteSets, TLC

VARIABLES
    polars,      \* POLARS_AVAILABLE of data_cleaner.py (fixed by the installation)
    posts,       \* the list handed to the operation in progress
    stats,       \* DataCleaner.stats
    result,      \* list returned by the last clean_posts call
    raised,      \* the last call ended with an exception
    first,       \* list returned by the first clean_posts call
    merged,      \* all_posts built by a merge script
    pc,          \* position of the run
    rel_post,    \* post handed to the relevance evaluator
    rel_score,   \* RelevanceScore returned by evaluate_post_simple
    rel_helper,  \* value returned by utils.helpers.calculate_relevance_score
    q_posts,     \* corpus handed to QualityAnalyzer._perform_quality_checks
    q_checks,    \* the checks dict it returned
    doc,         \* text and language handed to analyze_sentiment
    sentiments,  \* the dicts analyze_sentiment returned, one per call
    date_call,   \* script version, clock reading and argument of the date normalizer
    date_rets,   \* outcomes of the successive normalizer calls
    in_file,     \* the data file analyze_data is given
    out_files,   \* the files the run has written, by kind
    run,         \* locals of analyze_data: quality_result, summary, text_result
    batch_call,  \* posts and method handed to batch_evaluate
    batch_rets,  \* what batch_evaluate and generate_evaluation_report gave back
    post_obj,    \* a models.post.Post instance
    post_ret,    \* what the last constructor or method call on it gave back
    call,        \* arguments of the function being applied
    rets,        \* what it returned
    retry,       \* one BaseScraper._request_with_retry call in progress
    scrape       \* one DataCollectionApp.scrape_data run in progress

vars == <<polars, posts, stats, result, raised, first, merged, pc,
          rel_post, rel_score, rel_helper, q_posts, q_checks,
          doc, sentiments, date_call, date_rets,
          in_file, out_files, run, batch_call, batch_rets, post_obj,
          post_ret, call, rets, retry, scrape>>

cleanerVars == <<polars, posts, stats, result, raised, first, merged>>
relVars == <<rel_post, rel_score, rel_helper>>
qualVars == <<q_posts, q_checks>>
sentVars == <<doc, sentiments>>
dateVars == <<date_call, date_rets>>
runVars == <<in_file, out_files, run>>
batchVars == <<batch_call, batch_rets>>
postVars == <<post_obj, post_ret>>
lastVars == <<call, rets, retry, scrape>>
restVars == <<runVars, batchVars, postVars, lastVars>>
laterVars == <<qualVars, sentVars, dateVars, restVars>>

-----------------------------------------------------------------------------
(* Bounds                                                                  *)

MaxPosts == 2        \* longest batch of plain posts
MaxComments == 2     \* longest comment list of the single-post batches
MaxContentLen == 3   \* longest content handed to the relevance evaluator

-----------------------------------------------------------------------------
(* Python helpers                                                          *)

Empty == <<>>

\* dict.get(key, default)
Get(d, key, default) == IF key \in DOMAIN d THEN d[key] ELSE default

\* a one-key dict, or nothing when the key is to be left out
Absent == <<"\\absent">>
Field(key, v) == IF v = Absent THEN Empty ELSE (key :> v)

\* the items of a list, in order, that satisfy a test
RECURSIVE SelectIdx(_, _, _)
SelectIdx(s, keep, i) ==
    IF i > Len(s) THEN <<>>
    ELSE (IF i \in keep THEN <<s[i]>> ELSE <<>>) \o SelectIdx(s, keep, i + 1)

RECURSIVE SumSeq(_)
SumSeq(s) == IF s = <<>> THEN 0 ELSE Head(s) + SumSeq(Tail(s))

\* str.strip() / re \s : the whitespace characters of the alphabet
Whitespace == {" ", "\n"}

RECURSIVE LStrip(_)
LStrip(s) == IF s # <<>> /\ Head(s) \in Whitespace THEN LStrip(Tail(s)) ELSE s

RECURSIVE RStrip(_)
RStrip(s) ==
    IF s # <<>> /\ s[Len(s)] \in Whitespace THEN RStrip(SubSeq(s, 1, Len(s) - 1))
    ELSE s

Strip(s) == RStrip(LStrip(s))

\* re.sub(r'\s+', ' ', text)
RECURSIVE CollapseWhitespace(_)
CollapseWhitespace(s) ==
    IF s = <<>> THEN <<>>
    ELSE IF Head(s) \in Whitespace
         THEN <<" ">> \o CollapseWhitespace(LStrip(s))
         ELSE <<Head(s)>> \o CollapseWhitespace(Tail(s))

\* index of the first '>' of s at or after position i, 0 when there is none
RECURSIVE FirstGt(_, _)
FirstGt(s, i) ==
    IF i > Len(s) THEN 0 ELSE IF s[i] = ">" THEN i ELSE FirstGt(s, i + 1)

\* re.sub(r'<[^>]+>', '', text): leftmost non-overlapping matches
RECURSIVE StripTags(_)
StripTags(s) ==
    IF s = <<>> THEN <<>>
    ELSE LET j == FirstGt(s, 2) IN
         IF Head(s) = "<" /\ j >= 3
         THEN StripTags(SubSeq(s, j + 1, Len(s)))
         ELSE <<Head(s)>> \o StripTags(Tail(s))

\* clean_text with the strip done first instead of last
clean_text_strip_first(text) ==
    IF text = Absent \/ text = <<>> THEN <<>>
    ELSE CollapseWhitespace(StripTags(Strip(text)))

\* utils.helpers.clean_text(text) with remove_newlines left False; None is Absent
clean_text(text) ==
    IF text = Absent \/ text = <<>> THEN <<>>
    ELSE Strip(CollapseWhitespace(StripTags(text)))

\* the control characters [\x00-\x08\x0b\x0c\x0e-\x1f\x7f] of the alphabet
ControlChars == {"\\x00"}

RECURSIVE RemoveControl(_)
RemoveControl(s) ==
    IF s = <<>> THEN <<>>
    ELSE (IF Head(s) \in ControlChars THEN <<>> ELSE <<Head(s)>>)
         \o RemoveControl(Tail(s))

\* clean_text of the merge scripts: whitespace, then control characters, then strip
merge_clean_text(text) ==
    IF text = Absent \/ text = <<>> THEN <<>>
    ELSE Strip(RemoveControl(CollapseWhitespace(text)))

-----------------------------------------------------------------------------
(* analytics/data_cleaner.py                                               *)

\* A vote value as loaded from JSON: [t |-> "int", n |-> k] an integer,
\* [t |-> "numstr", n |-> k] a string int() parses to k, [t |-> "badstr"] any
\* other string, [t |-> "none"] null.
IntVal(k) == [t |-> "int", n |-> k]

\* int(v) inside try/except (ValueError, TypeError): 0 on failure (lines 196-199)
CoerceVote(v) == IF v.t \in {"int", "numstr"} THEN IntVal(v.n) ELSE IntVal(0)

VoteFields == <<"upvotes", "downvotes">>

\* one iteration body of _clean_comments up to the emptiness test (lines 186-187)
CleanCommentContent(c) ==
    IF "content" \in DOMAIN c
    THEN [c EXCEPT !["content"] = clean_text(c["content"])]
    ELSE c

\* lines 194-199
CleanCommentVotes(c) ==
    [k \in DOMAIN c |->
        IF k \in {VoteFields[1], VoteFields[2]} THEN CoerceVote(c[k]) ELSE c[k]]

\* DataCleaner._clean_comments
RECURSIVE _clean_comments(_)
_clean_comments(comments) ==
    IF comments = <<>> THEN <<>>
    ELSE LET c == CleanCommentContent(Head(comments)) IN
         (IF Get(c, "content", <<>>) = <<>> THEN <<>>
          ELSE <<CleanCommentVotes(c)>>)
         \o _clean_comments(Tail(comments))

\* a list element that json.load produced as something other than an object
IsMapping(p) == "notdict" \notin DOMAIN p

\* lines 110-112 and 161-163: the post with its comments cleaned
WithCleanComments(p) ==
    IF "comments" \in DOMAIN p /\ p["comments"] # <<>>
    THEN [p EXCEPT !["comments"] = _clean_comments(p["comments"])]
    ELSE p

\* what lines 112 / 163 add to stats['cleaned_comments'] for one post
CleanedCommentCount(p) ==
    IF "comments" \in DOMAIN p /\ p["comments"] # <<>>
    THEN Len(_clean_comments(p["comments"]))
    ELSE 0

\* index of the first element that is not a mapping, 0 when all are
RECURSIVE FirstBad(_, _)
FirstBad(ps, i) ==
    IF i > Len(ps) THEN 0
    ELSE IF ~IsMapping(ps[i]) THEN i ELSE FirstBad(ps, i + 1)

\* step 1 of _clean_with_python (lines 132-141) over ps[1..n]: kept indices
PyUnique(ps, n) ==
    {i \in 1..n :
        /\ Get(ps[i], "url", <<>>) # <<>>
        /\ \A j \in 1..(i - 1) : Get(ps[j], "url", <<>>) # Get(ps[i], "url", <<>>)}

\* lines 150-153
PyCleanFields(p) ==
    [k \in DOMAIN p |->
        IF k \in {"title", "content"} THEN clean_text(p[k]) ELSE p[k]]

\* line 156
PyInvalid(p) == Get(p, "title", <<>>) = <<>> \/ Get(p, "url", <<>>) = <<>>

\* DataCleaner._clean_with_python: [raised, out, stats]
_clean_with_python(ps, st) ==
    LET bad == FirstBad(ps, 1) IN
    IF bad # 0
    THEN \* post.get raises AttributeError at line 136, inside the first loop
         [raised |-> TRUE, out |-> <<>>,
          stats |-> [st EXCEPT !.removed_duplicates =
                         @ + (bad - 1) - Cardinality(PyUnique(ps, bad - 1))]]
    ELSE LET n == Len(ps)
             uniq == PyUnique(ps, n)
             cleaned == [i \in 1..n |-> PyCleanFields(ps[i])]
             kept == {i \in uniq : ~PyInvalid(cleaned[i])}
             final == [i \in 1..n |-> WithCleanComments(cleaned[i])]
         IN [raised |-> FALSE,
             out |-> SelectIdx(final, kept, 1),
             stats |-> [st EXCEPT
                 !.removed_duplicates = @ + n - Cardinality(uniq),
                 !.invalid_removed = @ + Cardinality(uniq \ kept),
                 !.cleaned_comments =
                     @ + SumSeq([i \in 1..n |->
                            IF i \in kept THEN CleanedCommentCount(cleaned[i]) ELSE 0])]]

\* the 'url' column of the DataFrame (line 69)
PlUrl(p) == Get(p, "url", <<>>)

\* df.unique(subset=['url'], keep='first'): row indices kept (line 82)
PlUnique(ps) ==
    {i \in 1..Len(ps) : \A j \in 1..(i - 1) : PlUrl(ps[j]) # PlUrl(ps[i])}

\* the cleaned 'title' column (line 89) and the filter of lines 95-98
PlValid(p) == clean_text(Get(p, "title", <<>>)) # <<>> /\ PlUrl(p) # <<>>

\* DataCleaner._clean_with_polars: [raised, out, stats]
_clean_with_polars(ps, st) ==
    IF FirstBad(ps, 1) # 0
    THEN \* post.get raises AttributeError at line 69
         [raised |-> TRUE, out |-> <<>>, stats |-> st]
    ELSE IF ps = <<>>
    THEN \* pl.DataFrame([]) has no columns: the expressions of lines 82-91 raise
         [raised |-> TRUE, out |-> <<>>, stats |-> st]
    ELSE LET n == Len(ps)
             uniq == PlUnique(ps)
             rows == {i \in uniq : PlValid(ps[i])}
             cleaned_urls == {PlUrl(ps[i]) : i \in rows}
             \* line 108: post.get('url') is None when the key is absent
             kept == {i \in 1..n : Get(ps[i], "url", Absent) \in cleaned_urls}
             final == [i \in 1..n |-> WithCleanComments(ps[i])]
         IN [raised |-> FALSE,
             out |-> SelectIdx(final, kept, 1),
             stats |-> [st EXCEPT
                 !.removed_duplicates = n - Cardinality(uniq),
                 !.invalid_removed = Cardinality(uniq \ rows),
                 !.cleaned_comments =
                     @ + SumSeq([i \in 1..n |->
                            IF i \in kept THEN CleanedCommentCount(ps[i]) ELSE 0])]]

\* DataCleaner.__init__
NewStats ==
    [total_posts |-> 0, removed_duplicates |-> 0,
     cleaned_comments |-> 0, invalid_removed |-> 0]

\* DataCleaner.clean_posts: [raised, out, stats]
clean_posts(ps, st, usePolars) ==
    LET st1 == [st EXCEPT !.total_posts = Len(ps)] IN
    IF usePolars THEN _clean_with_polars(ps, st1) ELSE _clean_with_python(ps, st1)


-----------------------------------------------------------------------------
(* scripts/data_merge_and_clean.py (v1), data_merge_and_clean_v3.py (v3)   *)
(* Only the fields the cleaning stage computes are kept in the output.     *)

\* v1 line 163: c.get('upvotes', 0) if isinstance(c.get('upvotes'), int) else 0
IntOrZero(c) ==
    IF "upvotes" \in DOMAIN c /\ c["upvotes"].t = "int" THEN c["upvotes"] ELSE IntVal(0)

\* v1 lines 128-135
StdCommentsRedditV1(comments) ==
    [i \in 1..Len(comments) |->
        [content |-> merge_clean_text(Get(comments[i], "content", <<>>)),
         upvotes |-> Get(comments[i], "upvotes", IntVal(0))]]

\* v1 lines 158-166
StdCommentsV2exV1(comments) ==
    [i \in 1..Len(comments) |->
        [content |-> merge_clean_text(Get(comments[i], "content", <<>>)),
         upvotes |-> IntOrZero(comments[i])]]

\* v3 lines 53-61 and 81-89
StdCommentsV3(comments, platform) ==
    [i \in 1..Len(comments) |->
        [content |-> merge_clean_text(Get(comments[i], "content", <<>>)),
         upvotes |-> Get(comments[i], "upvotes", IntVal(0)),
         platform |-> platform]]

\* v1 standardize_reddit_post / standardize_v2ex_post
standardize_post_v1(post, platform) ==
    LET comments == Get(post, "comments", <<>>) IN
    [platform |-> platform,
     url |-> Get(post, "url", <<>>),
     title |-> merge_clean_text(Get(post, "title", <<>>)),
     content |-> merge_clean_text(Get(post, "content", <<>>)),
     comment_count |-> Get(post, "comment_count", Len(comments)),
     comments |-> IF platform = "reddit" THEN StdCommentsRedditV1(comments)
                  ELSE StdCommentsV2exV1(comments)]

\* v3 standardize_reddit_post / standardize_v2ex_post
standardize_post_v3(post, platform) ==
    LET comments == StdCommentsV3(Get(post, "comments", <<>>), platform) IN
    [platform |-> platform,
     url |-> Get(post, "url", <<>>),
     title |-> merge_clean_text(Get(post, "title", <<>>)),
     content |-> merge_clean_text(Get(post, "content", <<>>)),
     comment_count |-> Len(comments),
     comments |-> comments]

Platforms == {"reddit", "v2ex"}

-----------------------------------------------------------------------------
(* Input batches                                                           *)

\* the element json.load gives for a JSON value that is not an object
NotDict == [notdict |-> TRUE]

PlainUrls == {Absent, <<>>, <<"h">>, <<"H">>}
PlainTitles == {Absent, <<" ">>, <<"A">>, <<" ", "B">>}

\* a two-comment list whose first comment is blank after cleaning
TwoComments ==
    << [content |-> <<" ">>, upvotes |-> IntVal(5)],
       [content |-> <<"x">>, upvotes |-> IntVal(1)] >>

PlainPosts ==
    { Field("url", u) @@ Field("title", t) @@ c :
        u \in PlainUrls, t \in PlainTitles,
        c \in {Empty, [comments |-> TwoComments, comment_count |-> 2]} }

RichComments ==
    { [content |-> <<" ">>, upvotes |-> IntVal(5)],
      [upvotes |-> IntVal(1)],
      [content |-> <<"x">>, upvotes |-> IntVal(-1), downvotes |-> [t |-> "none"]],
      [content |-> <<" ", "x", " ", "\n", "y">>, upvotes |-> [t |-> "badstr"]],
      [content |-> <<"x">>, upvotes |-> [t |-> "numstr", n |-> 7],
       downvotes |-> IntVal(0)],
      [content |-> <<"<", "b", ">", "y">>] }

RECURSIVE SeqsUpTo(_, _)
SeqsUpTo(S, n) ==
    IF n = 0 THEN {<<>>}
    ELSE LET shorter == SeqsUpTo(S, n - 1) IN
         shorter \cup {Append(q, x) : q \in {r \in shorter : Len(r) = n - 1}, x \in S}

RichTitles ==
    {<<"<", "b", ">", "A", "\n", " ", "B">>, <<"<", "b", ">", " ", "A">>,
     <<"A", "\\x00">>}

RichPosts ==
    { [url |-> <<"h">>, title |-> t, comments |-> cs]
        @@ Field("content", body) @@ cc :
        t \in RichTitles,
        cs \in SeqsUpTo(RichComments, MaxComments),
        body \in {Absent, <<"x", " ", " ", "y">>},
        cc \in {Empty} \cup {[comment_count |-> k] : k \in 0..MaxComments} }

\* idx is the identity of the list element (its position in the loaded file)
Indexed(ps) == [i \in 1..Len(ps) |-> ps[i] @@ ("idx" :> i)]

Batches ==
    {Indexed(b) : b \in SeqsUpTo(PlainPosts \cup {NotDict}, MaxPosts)}
    \cup {Indexed(<<r>>) : r \in RichPosts}

-----------------------------------------------------------------------------
(* State machine of the cleaning stage                                     *)

\* the subsystems that take no part in the run being checked
LaterIdleExcept(group) ==
    /\ group # "quality" => (q_posts = <<>> /\ q_checks = <<>>)
    /\ group # "sentiment" => (doc = <<>> /\ sentiments = <<>>)
    /\ group # "date" => (date_call = <<>> /\ date_rets = <<>>)
    /\ group # "run" => (in_file = <<>> /\ out_files = <<>> /\ run = <<>>)
    /\ group # "batch" => (batch_call = <<>> /\ batch_rets = <<>>)
    /\ group # "post" => (post_obj = <<>> /\ post_ret = <<>>)
    /\ group # "call" => (call = <<>> /\ rets = <<>>)
    /\ group # "retry" => retry = <<>>
    /\ group # "scrape" => scrape = <<>>

LaterIdle == LaterIdleExcept("none")

NoScore == [url |-> <<>>, score |-> 0, is_relevant |-> FALSE,
            reasons |-> <<>>, confidence |-> 0]

RelIdle ==
    /\ rel_post = Empty
    /\ rel_score = NoScore
    /\ rel_helper = 0

Init ==
    /\ polars \in BOOLEAN
    /\ posts \in Batches
    /\ stats = NewStats
    /\ result = <<>>
    /\ raised = FALSE
    /\ first = <<>>
    /\ merged = <<>>
    /\ pc = "start"
    /\ RelIdle
    /\ LaterIdle

\* main.py lines 232-237: cleaner = DataCleaner(); cleaner.clean_posts(posts_list)
CleanPosts ==
    /\ pc = "start"
    /\ LET r == clean_posts(posts, NewStats, polars) IN
       /\ stats' = r.stats
       /\ result' = r.out
       /\ first' = r.out
       /\ raised' = r.raised
    /\ pc' = "cleaned"
    /\ UNCHANGED <<polars, posts, merged, relVars, laterVars>>

\* a second, fresh DataCleaner run on the list the first run returned
CleanAgain ==
    /\ pc = "cleaned"
    /\ ~raised
    /\ LET r == clean_posts(result, NewStats, polars) IN
       /\ stats' = r.stats
       /\ result' = r.out
       /\ raised' = r.raised
    /\ posts' = result
    /\ pc' = "recleaned"
    /\ UNCHANGED <<polars, first, merged, relVars, laterVars>>

\* data_merge_and_clean.py main(), lines 263-269
MergeV1 ==
    /\ pc = "start"
    /\ \E platform \in Platforms :
        IF FirstBad(posts, 1) # 0
        THEN raised' = TRUE /\ merged' = <<>>
        ELSE /\ raised' = FALSE
             /\ merged' = [i \in 1..Len(posts) |-> standardize_post_v1(posts[i], platform)]
    /\ pc' = "merged"
    /\ UNCHANGED <<polars, posts, stats, result, first, relVars, laterVars>>

\* data_merge_and_clean_v3.py main(), lines 126-140
MergeV3 ==
    /\ pc = "start"
    /\ \E platform \in Platforms :
        IF FirstBad(posts, 1) # 0
        THEN raised' = TRUE /\ merged' = <<>>
        ELSE /\ raised' = FALSE
             /\ merged' = [i \in 1..Len(posts) |-> standardize_post_v3(posts[i], platform)]
    /\ pc' = "merged"
    /\ UNCHANGED <<polars, posts, stats, result, first, relVars, laterVars>>

Next == CleanPosts \/ CleanAgain \/ MergeV1 \/ MergeV3

Spec == Init /\ [][Next]_vars

-----------------------------------------------------------------------------
(* ai_search/relevance_evaluator.py, utils/helpers.py, config/config.py    *)
(* A text is a sequence of units; a keyword is the sequence of units it is *)
(* spelled with, so "ChatGPT" contains "GPT".  The Chinese keywords of     *)
(* config.py are written in pinyin.                                        *)

\* str.lower() on one unit
LowerUnit(u) ==
    CASE u = "Chat" -> "chat"
      [] u = "GPT" -> "gpt"
      [] u = "AI" -> "ai"
      [] u = "IT" -> "it"
      [] u = "Claude" -> "claude"
      [] u = "Gemini" -> "gemini"
      [] u = "Good" -> "good"
      [] u = "D" -> "d"
      [] u = "Zhihu" -> "zhihu"
      [] u = "Topic" -> "topic"
      [] OTHER -> u

\* str.lower()
Lower(s) == [i \in 1..Len(s) |-> LowerUnit(s[i])]

\* the Python test  kw in text
Contains(text, kw) ==
    \E i \in 0..(Len(text) - Len(kw)) :
        \A j \in 1..Len(kw) : text[i + j] = kw[j]

\* KEYWORDS["primary"]
PrimaryKeywords ==
    << <<"Chat", "GPT">>, <<"GPT">>, <<"da", "moxing">>, <<"da", "yuyan", "moxing">>,
       <<"AI">>, <<"rengongzhineng">>, <<"wenxinyiyan">>, <<"tongyiqianwen">>,
       <<"xunfeixinghuo">>, <<"Claude">>, <<"Gemini">> >>

\* KEYWORDS["secondary"]
SecondaryKeywords ==
    << <<"chengxuyuan">>, <<"kaifa">>, <<"gongchengshi">>, <<"IT">>, <<"jishu">>,
       <<"biancheng">>, <<"jiuye">>, <<"shiye">>, <<"gangwei">>, <<"zhiwei">>,
       <<"gongzuo">>, <<"qiuzhi">>, <<"jineng">>, <<"nengli">>, <<"xuexi">>,
       <<"zhuanxing">> >>

\* KEYWORDS["exclude"]
ExcludeKeywords ==
    << <<"zhaopin", "guanggao">>, <<"shoumai">>, <<"tuiguang">>,
       <<"kecheng", "shoumai">> >>

\* the keywords of a list found in a lowered text, in list order
Matches(kws, lowered) ==
    SelectIdx(kws, {i \in 1..Len(kws) : Contains(lowered, Lower(kws[i]))}, 1)

\* lines 47-49: title.lower() + ' ' + content.lower()
FullText(post) ==
    Lower(Get(post, "title", <<>>)) \o <<" ">> \o Lower(Get(post, "content", <<>>))

\* line 83: secondary_matches[:5]
FirstFive(s) == SubSeq(s, 1, IF Len(s) < 5 THEN Len(s) ELSE 5)

Min(a, b) == IF a < b THEN a ELSE b

\* the exclude test done with == instead of in
ExcludedExactOnly(full_text) ==
    SelectIdx(ExcludeKeywords,
              {i \in 1..Len(ExcludeKeywords) : full_text = Lower(ExcludeKeywords[i])}, 1)

\* lines 55-56: the exclude keywords found in the text, in list order
Excluded(full_text) == Matches(ExcludeKeywords, full_text)

\* the threshold test done with > instead of >=
IsRelevantStrict(score) == score > 5

\* line 89: is_relevant = score >= 0.5, score in tenths
IsRelevant(score) == score >= 5

\* RelevanceEvaluator.evaluate_post_simple; score and confidence in tenths
evaluate_post_simple(post) ==
    LET full_text == FullText(post)
        excluded == Excluded(full_text)
        primary_matches == Matches(PrimaryKeywords, full_text)
        secondary_matches == Matches(SecondaryKeywords, full_text)
        reasons ==
            (IF primary_matches # <<>>
             THEN <<[kind |-> "primary", kws |-> primary_matches]>> ELSE <<>>)
            \o (IF secondary_matches # <<>>
                THEN <<[kind |-> "secondary", kws |-> FirstFive(secondary_matches)]>>
                ELSE <<>>)
        score == Min(4 * Len(primary_matches) + 1 * Len(secondary_matches), 10)
    IN IF excluded # <<>>
       THEN [url |-> Get(post, "url", <<>>), score |-> 0, is_relevant |-> FALSE,
             reasons |-> <<[kind |-> "exclude", kws |-> <<excluded[1]>>]>>,
             confidence |-> 9]
       ELSE [url |-> Get(post, "url", <<>>), score |-> score,
             is_relevant |-> IsRelevant(score),
             reasons |-> IF reasons = <<>>
                         THEN <<[kind |-> "none", kws |-> <<>>]>> ELSE reasons,
             confidence |-> 7]

\* utils.helpers.calculate_relevance_score, in units of 1/HelperScale:
\* 0.6 * matched/len(primary) + 0.4 * matched/len(secondary)
HelperScale == 10 * Len(PrimaryKeywords) * Len(SecondaryKeywords)

calculate_relevance_score(text, primary_keywords, secondary_keywords, exclude_keywords) ==
    IF text = <<>> THEN 0
    ELSE IF Matches(exclude_keywords, Lower(text)) # <<>> THEN 0
    ELSE Min(6 * Len(Matches(primary_keywords, Lower(text))) * Len(secondary_keywords)
             + 4 * Len(Matches(secondary_keywords, Lower(text))) * Len(primary_keywords),
             HelperScale)

\* units the evaluated texts are written with
RelUnits == {"Chat", "gpt", "AI", "it", "jiuye", "shoumai", "kecheng", "x"}

RelPosts ==
    { [url |-> <<"h">>] @@ Field("title", t) @@ Field("content", c) :
        t \in {Absent} \cup SeqsUpTo(RelUnits, 1),
        c \in {Absent} \cup SeqsUpTo(RelUnits, MaxContentLen) }

CleanerIdle ==
    /\ polars = FALSE
    /\ posts = <<>>
    /\ stats = NewStats
    /\ result = <<>>
    /\ raised = FALSE
    /\ first = <<>>
    /\ merged = <<>>

InitRel ==
    /\ CleanerIdle
    /\ LaterIdle
    /\ pc = "rel_start"
    /\ rel_post \in RelPosts
    /\ rel_score = NoScore
    /\ rel_helper = 0

\* batch_evaluate(method='simple') on one post, and the helper on the same text
Evaluate ==
    /\ pc = "rel_start"
    /\ rel_score' = evaluate_post_simple(rel_post)
    /\ rel_helper' = calculate_relevance_score(
            Get(rel_post, "title", <<>>) \o <<" ">> \o Get(rel_post, "content", <<>>),
            PrimaryKeywords, SecondaryKeywords, ExcludeKeywords)
    /\ pc' = "rel_done"
    /\ UNCHANGED <<rel_post, cleanerVars, laterVars>>

NextRel == Evaluate

SpecRel == InitRel /\ [][NextRel]_vars

-----------------------------------------------------------------------------
(* Properties of the cleaning stage                                        *)

Returned == pc = "cleaned" /\ ~raised

UrlOf(p) == Get(p, "url", <<>>)

\* records of the batch whose url already occurred earlier in the batch
LaterOccurrences(ps) ==
    {i \in 1..Len(ps) : \E j \in 1..(i - 1) : UrlOf(ps[j]) = UrlOf(ps[i])}

\* records with an empty title after cleaning or an empty / missing url
InvalidRecords(ps) ==
    {i \in 1..Len(ps) :
        clean_text(Get(ps[i], "title", <<>>)) = <<>> \/ UrlOf(ps[i]) = <<>>}

\* C1: after clean_posts on a fresh DataCleaner, total_posts equals the number of
\* returned posts plus removed_duplicates plus invalid_removed, on either path.
C1_Conservation ==
    Returned =>
        stats.total_posts
            = Len(result) + stats.removed_duplicates + stats.invalid_removed

\* C2: the returned list has at most one post per url, each kept post is the first
\* of the batch with its url, the kept posts keep their relative order, and
\* removed_duplicates is the number of later occurrences dropped.
C2_FirstOccurrenceWins ==
    Returned =>
        /\ \A a, b \in 1..Len(result) : a < b => UrlOf(result[a]) # UrlOf(result[b])
        /\ \A a \in 1..Len(result) : result[a]["idx"] \notin LaterOccurrences(posts)
        /\ \A a, b \in 1..Len(result) : a < b => result[a]["idx"] < result[b]["idx"]
        /\ stats.removed_duplicates = Cardinality(LaterOccurrences(posts))

\* the batch with the elements that are not mappings left out
GoodOnly(ps) == SelectIdx(ps, {i \in 1..Len(ps) : IsMapping(ps[i])}, 1)

\* C3: a batch holding a record that is not a mapping does not make clean_posts
\* raise; the record is counted as invalid and the other records are cleaned as
\* they would be without it.
C3_MalformedRecordTolerated ==
    (pc = "cleaned" /\ FirstBad(posts, 1) # 0) =>
        /\ ~raised
        /\ stats.invalid_removed >= Len(posts) - Len(GoodOnly(posts))
        /\ result = clean_posts(GoodOnly(posts), NewStats, polars).out

\* C4: no returned post has an empty cleaned title or an empty url, and in a batch
\* without repeated urls the records with an empty title or url are exactly the
\* ones counted in invalid_removed, none of them in removed_duplicates.
C4_ValidityFilter ==
    Returned =>
        /\ \A a \in 1..Len(result) :
               /\ clean_text(Get(result[a], "title", <<>>)) # <<>>
               /\ UrlOf(result[a]) # <<>>
        /\ LaterOccurrences(posts) = {} =>
               /\ stats.invalid_removed = Cardinality(InvalidRecords(posts))
               /\ stats.removed_duplicates = 0

UrlLowerUnit(u) == IF u = "H" THEN "h" ELSE u
NormalizeUrl(u) == Strip([i \in 1..Len(u) |-> UrlLowerUnit(u[i])])

\* C6: records whose urls differ only in letter case or surrounding whitespace are
\* duplicates of each other, so the returned list holds at most one of them.
C6_NormalizedUrlKey ==
    Returned =>
        \A a, b \in 1..Len(result) :
            a < b => NormalizeUrl(UrlOf(result[a])) # NormalizeUrl(UrlOf(result[b]))

\* C7: every comment of a returned post has non-empty cleaned content and vote
\* fields that are non-negative integers.
C7_CommentCascade ==
    Returned =>
        \A a \in 1..Len(result) :
            LET cs == Get(result[a], "comments", <<>>) IN
            \A k \in 1..Len(cs) :
                /\ Get(cs[k], "content", <<>>) # <<>>
                /\ clean_text(cs[k]["content"]) = cs[k]["content"]
                /\ \A f \in {"upvotes", "downvotes"} \cap DOMAIN cs[k] :
                       cs[k][f].t = "int" /\ cs[k][f].n >= 0

\* C8: every post the cleaning stage emits (clean_posts, or the standardize
\* functions of a merge script) carries a comment_count equal to the number of
\* comments it carries.
C8_CommentCountMatches ==
    /\ Returned =>
           \A a \in 1..Len(result) :
               "comment_count" \in DOMAIN result[a] =>
                   result[a]["comment_count"]
                       = Len(Get(result[a], "comments", <<>>))
    /\ (pc = "merged" /\ ~raised) =>
           \A a \in 1..Len(merged) :
               merged[a].comment_count = Len(merged[a].comments)

-----------------------------------------------------------------------------
(* Properties of the keyword relevance scorer                              *)

\* keywords of a list that occur in title + ' ' + content, case ignored
Matched(kws, post) ==
    {i \in 1..Len(kws) : Contains(FullText(post), Lower(kws[i]))}

ReasonKinds(r) == {r.reasons[i].kind : i \in 1..Len(r.reasons)}

\* C9: a post whose text contains an exclude keyword scores 0.0, is not relevant,
\* has confidence 0.9 and a single reason naming an exclude keyword of the text,
\* whatever primary and secondary keywords it also contains.
C9_ExcludeDominance ==
    (pc = "rel_done" /\ Matched(ExcludeKeywords, rel_post) # {}) =>
        /\ rel_score.score = 0
        /\ rel_score.is_relevant = FALSE
        /\ rel_score.confidence = 9
        /\ ReasonKinds(rel_score) = {"exclude"}
        /\ Len(rel_score.reasons) = 1
        /\ \E i \in Matched(ExcludeKeywords, rel_post) :
               rel_score.reasons[1].kws = <<ExcludeKeywords[i]>>
        /\ rel_helper = 0

\* an excluded post that also matches three primary keywords
C9_Witness ==
    /\ pc = "rel_done"
    /\ Matched(ExcludeKeywords, rel_post) # {}
    /\ Cardinality(Matched(PrimaryKeywords, rel_post)) >= 3
    /\ rel_score.score = 0

-----------------------------------------------------------------------------
(* analytics/quality_analyzer.py: the corpus quality checks.  Percentages   *)
(* and averages are fractions [num, den]; overall_quality_score is kept in  *)
(* hundredths, the precision round(score, 2) leaves.                        *)

MIN_COMMENTS_PER_POST == 50
MIN_POSTS_REQUIRED == 18

MaxCorpus == 20      \* largest corpus handed to the quality checks

\* sum(1 for p in posts if len(p.get('comments', [])) > MIN_COMMENTS_PER_POST)
ValidPostsStrict(ps) ==
    Cardinality({i \in 1..Len(ps) :
        Len(Get(ps[i], "comments", <<>>)) > MIN_COMMENTS_PER_POST})

\* sum(1 for p in posts if len(p.get('comments', [])) >= MIN_COMMENTS_PER_POST)
ValidPosts(ps) ==
    Cardinality({i \in 1..Len(ps) :
        Len(Get(ps[i], "comments", <<>>)) >= MIN_COMMENTS_PER_POST})

\* sum(1 for p in posts if p.get(key)): a missing key, None and '' are falsy
CountWith(ps, key) ==
    Cardinality({i \in 1..Len(ps) : Get(ps[i], key, Absent) \notin {Absent, <<>>}})

\* count / len(posts) * 100 if posts else 0
Percent(count, ps) ==
    IF ps = <<>> THEN [num |-> 0, den |-> 1]
    ELSE [num |-> 100 * count, den |-> Len(ps)]

\* round(num / den, 0) of Python 3: to the nearest integer, a tie to the even one
RoundDiv(num, den) ==
    LET q == num \div den
        r == num % den
    IN IF 2 * r > den \/ (2 * r = den /\ q % 2 = 1) THEN q + 1 ELSE q

\* min(pct * 0.2, 20) as a fraction over pct.den
CappedFifth(pct) ==
    IF pct.num > 100 * pct.den THEN 20 * pct.den ELSE pct.num \div 5

_perform_quality_checks(ps) ==
    LET meets_min_posts == Len(ps) >= MIN_POSTS_REQUIRED
        meets_min_comments == ValidPosts(ps) >= MIN_POSTS_REQUIRED
        has_time_info == Percent(CountWith(ps, "created_at"), ps)
        has_author_info == Percent(CountWith(ps, "author"), ps)
        den == has_time_info.den
        score == (IF meets_min_posts THEN 30 * den ELSE 0)
                 + (IF meets_min_comments THEN 30 * den ELSE 0)
                 + CappedFifth(has_time_info)
                 + CappedFifth(has_author_info)
    IN [meets_min_posts |-> meets_min_posts,
        meets_min_comments |-> meets_min_comments,
        has_time_info |-> has_time_info,
        has_author_info |-> has_author_info,
        avg_content_length |->
            IF ps = <<>> THEN [num |-> 0, den |-> 1]
            ELSE [num |-> SumSeq([i \in 1..Len(ps) |->
                                    Len(Get(ps[i], "content", <<>>))]),
                  den |-> Len(ps)],
        overall_quality_score |-> RoundDiv(100 * score, den)]

\* a corpus of n posts: the first k carry MIN_COMMENTS_PER_POST comments and the
\* others one fewer, the first ct carry created_at, the last ca carry author
Corpus(n, k, ct, ca) ==
    [i \in 1..n |->
        ("comments" :> [j \in 1..(IF i <= k THEN MIN_COMMENTS_PER_POST
                                   ELSE MIN_COMMENTS_PER_POST - 1) |->
                            [content |-> <<"c">>]])
        @@ ("content" :> <<"t">>)
        @@ Field("created_at", IF i <= ct THEN <<"2", "0", "2", "4">> ELSE Absent)
        @@ ("author" :> (IF i > n - ca THEN <<"a">> ELSE <<>>))]

InitQual ==
    /\ CleanerIdle
    /\ RelIdle
    /\ LaterIdleExcept("quality")
    /\ pc = "q_start"
    /\ \E n \in 0..MaxCorpus, ct \in 0..MaxCorpus, ca \in {0, 1, MaxCorpus},
          k \in {0, MIN_POSTS_REQUIRED - 1, MIN_POSTS_REQUIRED,
                 MIN_POSTS_REQUIRED + 1} :
            q_posts = Corpus(n, k, ct, ca)
    /\ q_checks = <<>>

\* QualityAnalyzer.analyze, line 41
PerformQualityChecks ==
    /\ pc = "q_start"
    /\ q_checks' = _perform_quality_checks(q_posts)
    /\ pc' = "q_done"
    /\ UNCHANGED <<q_posts, cleanerVars, relVars, sentVars, dateVars, restVars>>

NextQual == PerformQualityChecks

SpecQual == InitQual /\ [][NextQual]_vars

-----------------------------------------------------------------------------
(* Properties of the corpus quality score                                   *)

\* posts of the corpus whose comment list reaches the threshold
EnoughComments(ps) ==
    {i \in 1..Len(ps) : Len(Get(ps[i], "comments", <<>>)) >= 50}

\* posts of the corpus with a non-empty value under the key
Having(ps, key) ==
    {i \in 1..Len(ps) : key \in DOMAIN ps[i] /\ ps[i][key] # <<>>}

\* Len(ps) times the rubric 30 [volume] + 30 [comments] + 0.2 time% + 0.2 author%
RubricTimesLen(ps) ==
    (IF Len(ps) >= 18 THEN 30 * Len(ps) ELSE 0)
    + (IF Cardinality(EnoughComments(ps)) >= 18 THEN 30 * Len(ps) ELSE 0)
    + 20 * Cardinality(Having(ps, "created_at"))
    + 20 * Cardinality(Having(ps, "author"))

Abs(x) == IF x < 0 THEN 0 - x ELSE x

-----------------------------------------------------------------------------
(* scripts/text_analysis.py: analyze_sentiment.  A lexicon word is the      *)
(* sequence of units it is spelled with ("dislike" is "dis" + "like"); the  *)
(* Chinese words are written in pinyin.  The score is kept in thousandths,  *)
(* the precision round(sentiment_score, 3) leaves.                          *)

MaxDocLen == 5       \* longest text handed to analyze_sentiment

\* SENTIMENT_WORDS['positive']
PositiveWords(language) ==
    CASE language = "en" ->
           << <<"good">>, <<"great">>, <<"excellent">>, <<"amazing">>, <<"awesome">>,
              <<"fantastic">>, <<"wonderful">>, <<"helpful">>, <<"useful">>,
              <<"beneficial">>, <<"opportunity">>, <<"opportunities">>,
              <<"advantage">>, <<"improve">>, <<"better">>, <<"best">>, <<"love">>,
              <<"like">>, <<"enjoy">>, <<"happy">>, <<"excited">>, <<"optimistic">>,
              <<"positive">>, <<"hope">>, <<"hope", "ful">>, <<"promising">>,
              <<"success">>, <<"success", "ful">>, <<"efficient">>,
              <<"productivity">>, <<"innovative">>, <<"creative">>, <<"smart">>,
              <<"intelligent">>, <<"powerful">>, <<"capable">>, <<"effective">>,
              <<"valuable">>, <<"progress">>, <<"advance">>, <<"growth">>,
              <<"assist">>, <<"assist", "ance">>, <<"support">>, <<"enhance">>,
              <<"boost">>, <<"augment">>, <<"empower">> >>
      [] language = "zh" ->
           << <<"hao">>, <<"hen", "hao">>, <<"feichang", "hao">>, <<"youxiu">>,
              <<"chuse">>, <<"bang">>, <<"lihai">>, <<"youyong">>, <<"youbangzhu">>,
              <<"youyi">>, <<"jihui">>, <<"youshi">>, <<"gaishan">>, <<"tisheng">>,
              <<"jinbu">>, <<"xihuan">>, <<"kaixin">>, <<"xingfen">>, <<"leguan">>,
              <<"jiji">>, <<"xiwang">>, <<"youqiantu">>, <<"chenggong">>,
              <<"gaoxiao">>, <<"chuangxin">>, <<"chuangzao">>, <<"qiangda">>,
              <<"youxiao">>, <<"youjiazhi">>, <<"fuzhu">>, <<"zhichi">>,
              <<"zengqiang">>, <<"funeng">>, <<"jiefang">>, <<"xiaolv">> >>
      [] OTHER -> <<>>

\* SENTIMENT_WORDS['negative']
NegativeWords(language) ==
    CASE language = "en" ->
           << <<"bad">>, <<"terrible">>, <<"awful">>, <<"horrible">>, <<"worst">>,
              <<"hate">>, <<"dis", "like">>, <<"angry">>, <<"sad">>, <<"worried">>,
              <<"worry">>, <<"concern">>, <<"concern", "ed">>, <<"fear">>,
              <<"afraid">>, <<"scary">>, <<"threat">>, <<"threat", "en">>,
              <<"threat", "en", "ing">>, <<"danger">>, <<"danger", "ous">>,
              <<"risk">>, <<"risk", "y">>, <<"replace">>, <<"replace", "ment">>,
              <<"obsolete">>, <<"useless">>, <<"worthless">>, <<"unemployed">>,
              <<"unemployment">>, <<"layoff">>, <<"layoff", "s">>, <<"fired">>,
              <<"lose">>, <<"lost">>, <<"losing">>, <<"pessimistic">>,
              <<"negative">>, <<"doom">>, <<"doom", "ed">>, <<"fail">>,
              <<"fail", "ure">>, <<"difficult">>, <<"hard">>, <<"struggle">>,
              <<"struggling">>, <<"crisis">>, <<"problem">>, <<"problem", "s">>,
              <<"issue">>, <<"issue", "s">>, <<"decline">>, <<"decrease">>,
              <<"drop">>, <<"fall">>, <<"crash">>, <<"collapse">> >>
      [] language = "zh" ->
           << <<"cha">>, <<"zaogao">>, <<"kepa">>, <<"kongbu">>, <<"zui", "cha">>,
              <<"taoyan">>, <<"shengqi">>, <<"nanguo">>, <<"danxin">>, <<"danyou">>,
              <<"jiaolv">>, <<"kongju">>, <<"haipa">>, <<"weixie">>, <<"weixian">>,
              <<"fengxian">>, <<"qudai">>, <<"tidai">>, <<"taotai">>, <<"guoshi">>,
              <<"wuyong">>, <<"shiye">>, <<"caiyuan">>, <<"beicai">>, <<"shiqu">>,
              <<"beiguan">>, <<"xiaoji">>, <<"mori">>, <<"shibai">>, <<"kunnan">>,
              <<"jiannan">>, <<"zhengzha">>, <<"weiji">>, <<"wenti">>, <<"xiajiang">>,
              <<"jianshao">>, <<"bengkui">>, <<"nei", "juan">>, <<"juan">> >>
      [] OTHER -> <<>>

\* sum(1 for word in words if word in text_lower)
Hits(words, text_lower) ==
    Cardinality({i \in 1..Len(words) : Contains(text_lower, words[i])})

\* the label with the boundary 0.2 counted as positive and -0.2 as negative
SentimentLabelInclusive(positive_count, negative_count) ==
    LET total == positive_count + negative_count IN
    IF 5 * (positive_count - negative_count) >= total THEN "positive"
    ELSE IF 5 * (positive_count - negative_count) <= 0 - total THEN "negative"
    ELSE "neutral"

\* lines 229-234: score > 0.2, score < -0.2, else neutral, for total > 0
SentimentLabel(positive_count, negative_count) ==
    LET total == positive_count + negative_count IN
    IF 5 * (positive_count - negative_count) > total THEN "positive"
    ELSE IF 5 * (positive_count - negative_count) < 0 - total THEN "negative"
    ELSE "neutral"

analyze_sentiment(text, language) ==
    LET text_lower == Lower(text)
        positive_count == Hits(PositiveWords(language), text_lower)
        negative_count == Hits(NegativeWords(language), text_lower)
        total == positive_count + negative_count
    IN [score |-> IF total = 0 THEN 0
                  ELSE RoundDiv(1000 * (positive_count - negative_count), total),
        label |-> IF total = 0 THEN "neutral"
                  ELSE SentimentLabel(positive_count, negative_count),
        positive_count |-> positive_count,
        negative_count |-> negative_count]

\* texts of the given length, written with seven units, no unit repeated
DocsOfLen(n) ==
    {t \in [1..n -> {"Good", "dis", "like", "hope", "ful", "bad", "hao"}] :
        \A i, j \in 1..n : t[i] = t[j] => i = j}

InitSent ==
    /\ CleanerIdle
    /\ RelIdle
    /\ LaterIdleExcept("sentiment")
    /\ pc = "s_start"
    /\ \E n \in 0..MaxDocLen, language \in {"en", "zh", "fr"} :
        \E text \in DocsOfLen(n) : doc = [text |-> text, language |-> language]
    /\ sentiments = <<>>

\* one call of analyze_sentiment on the document (text_analysis.py lines 332-333, 369)
AnalyzeSentiment ==
    /\ pc \in {"s_start", "s_once"}
    /\ sentiments' = Append(sentiments, analyze_sentiment(doc.text, doc.language))
    /\ pc' = IF pc = "s_start" THEN "s_once" ELSE "s_twice"
    /\ UNCHANGED <<doc, cleanerVars, relVars, qualVars, dateVars, restVars>>

NextSent == AnalyzeSentiment

SpecSent == InitSent /\ [][NextSent]_vars

-----------------------------------------------------------------------------
(* Properties of analyze_sentiment                                          *)

\* lexicon words of the language that occur in the lower-cased document
PositiveHits == Hits(PositiveWords(doc.language), Lower(doc.text))
NegativeHits == Hits(NegativeWords(doc.language), Lower(doc.text))

Analyzed == pc \in {"s_once", "s_twice"}

\* C12 as stated: the returned score is exactly (p - n) / (p + n).
C12_ExactScore ==
    (Analyzed /\ PositiveHits + NegativeHits > 0) =>
        sentiments[1].score * (PositiveHits + NegativeHits)
            = 1000 * (PositiveHits - NegativeHits)

\* C12: with p positive and n negative hits the returned score is (p - n)/(p + n)
\* rounded to three decimals and lies in [-1, 1]; with no hit (also for a language
\* without lexicon) it is 0 and the label neutral; otherwise the label is positive
\* iff score > 0.2, negative iff score < -0.2, else neutral; a second call on the
\* same text and language returns the same dict.
C12_Sentiment ==
    Analyzed =>
        LET p == PositiveHits
            n == NegativeHits
            r == sentiments[1]
        IN /\ r.positive_count = p /\ r.negative_count = n
           /\ r.score \in -1000..1000
           /\ 2 * Abs(r.score * (p + n) - 1000 * (p - n)) <= p + n
           /\ (p + n = 0) => (r.score = 0 /\ r.label = "neutral")
           /\ (p + n > 0) =>
                /\ (r.label = "positive") = (r.score > 200)
                /\ (r.label = "negative") = (r.score < -200)
                /\ r.label \in {"positive", "negative", "neutral"}
           /\ (pc = "s_twice") => (sentiments[2] = sentiments[1])

\* three positive and two negative hits, analysed twice: score 0.2, neutral
C12_Witness ==
    /\ pc = "s_twice"
    /\ PositiveHits = 3
    /\ NegativeHits = 2
    /\ sentiments[1].score = 200
    /\ sentiments[1].label = "neutral"
    /\ sentiments[2] = sentiments[1]

-----------------------------------------------------------------------------
(* scripts/data_merge_and_clean.py, _v2.py, _v3.py: date normalization.     *)
(* A date string is a sequence of characters; the two characters of the     *)
(* Chinese phrase for "days ago" are written "tian" and "qian".  A calendar *)
(* date is a record [y, m, d].                                              *)

DigitChars == <<"0", "1", "2", "3", "4", "5", "6", "7", "8", "9">>

IsDigit(c) == \E k \in 1..10 : DigitChars[k] = c

DigitVal(c) == (CHOOSE k \in 1..10 : DigitChars[k] = c) - 1

\* int() of a run of digits
RECURSIVE IntOf(_)
IntOf(ds) ==
    IF ds = <<>> THEN 0
    ELSE 10 * IntOf(SubSeq(ds, 1, Len(ds) - 1)) + DigitVal(ds[Len(ds)])

\* str() of a non-negative int
RECURSIVE StrOf(_)
StrOf(k) ==
    IF k < 10 THEN <<DigitChars[k + 1]>>
    ELSE StrOf(k \div 10) \o <<DigitChars[(k % 10) + 1]>>

\* str.zfill(width) of a run of digits
RECURSIVE ZFill(_, _)
ZFill(ds, width) == IF Len(ds) >= width THEN ds ELSE ZFill(<<"0">> \o ds, width)

\* length of the longest run of digits that starts at position i
RECURSIVE DigitRun(_, _)
DigitRun(s, i) ==
    IF i <= Len(s) /\ IsDigit(s[i]) THEN 1 + DigitRun(s, i + 1) ELSE 0

\* s[:n]
Prefix(s, n) == SubSeq(s, 1, Min(Len(s), n))

DaysInMonth(y, m) ==
    IF m = 2 THEN (IF (y % 4 = 0 /\ y % 100 # 0) \/ y % 400 = 0 THEN 29 ELSE 28)
    ELSE IF m \in {4, 6, 9, 11} THEN 30 ELSE 31

\* the date part of  date - timedelta(days=days)
RECURSIVE MinusDays(_, _)
MinusDays(date, days) ==
    LET PrevDay ==
            IF date.d > 1 THEN [date EXCEPT !.d = date.d - 1]
            ELSE IF date.m > 1
            THEN [y |-> date.y, m |-> date.m - 1,
                  d |-> DaysInMonth(date.y, date.m - 1)]
            ELSE [y |-> date.y - 1, m |-> 12, d |-> 31]
    IN IF days = 0 THEN date ELSE MinusDays(PrevDay, days - 1)

\* dt.strftime("%Y-%m-%d")
StrfDate(date) ==
    StrOf(date.y) \o <<"-">> \o ZFill(StrOf(date.m), 2)
        \o <<"-">> \o ZFill(StrOf(date.d), 2)


\* datetime.strptime: a format is a sequence of directives and literal characters
NoMatch == [ok |-> FALSE]

\* the spellings the regular expression of a numeric directive accepts
Spelled(directive, len, val) ==
    CASE directive = "%Y" -> len = 4
      [] directive = "%m" -> (len = 1 /\ val \in 1..9) \/ (len = 2 /\ val \in 1..12)
      [] directive = "%d" -> (len = 1 /\ val \in 1..9) \/ (len = 2 /\ val \in 1..31)
      [] directive = "%H" -> len = 1 \/ (len = 2 /\ val <= 23)
      [] directive = "%M" -> len = 1 \/ (len = 2 /\ val <= 59)
      [] directive = "%S" -> len = 1 \/ (len = 2 /\ val <= 59)
      [] directive = "%f" -> len \in 1..6

\* length of the run of whitespace that starts at position i
RECURSIVE SpaceRun(_, _)
SpaceRun(s, i) ==
    IF i <= Len(s) /\ s[i] \in Whitespace THEN 1 + SpaceRun(s, i + 1) ELSE 0

\* length of a UTC offset at position i: Z, +hhmm or +hh:mm; 0 when there is none
OffsetLen(s, i) ==
    IF i <= Len(s) /\ s[i] = "Z" THEN 1
    ELSE IF i <= Len(s) /\ s[i] \in {"+", "-"} /\ DigitRun(s, i + 1) = 4
              /\ DigitVal(s[i + 3]) <= 5
         THEN 5
    ELSE IF i + 5 <= Len(s) /\ s[i] \in {"+", "-"} /\ DigitRun(s, i + 1) = 2
              /\ s[i + 3] = ":" /\ DigitRun(s, i + 4) = 2 /\ DigitVal(s[i + 4]) <= 5
         THEN 6
    ELSE 0

RECURSIVE MatchFrom(_, _, _, _, _)
MatchFrom(s, i, fmt, j, acc) ==
    IF j > Len(fmt) THEN (IF i > Len(s) THEN acc ELSE NoMatch)
    ELSE IF fmt[j] \in {"%Y", "%m", "%d", "%H", "%M", "%S", "%f"}
    THEN LET start == IF fmt[j] = "%d" /\ i <= Len(s) /\ s[i] = " " THEN i + 1 ELSE i
             len == DigitRun(s, start)
             val == IntOf(SubSeq(s, start, start + len - 1))
             found == CASE fmt[j] = "%Y" -> [acc EXCEPT !.y = val]
                        [] fmt[j] = "%m" -> [acc EXCEPT !.m = val]
                        [] fmt[j] = "%d" -> [acc EXCEPT !.d = val]
                        [] OTHER -> acc
         IN IF len > 0 /\ Spelled(fmt[j], len, val) /\ (start > i => len = 1)
            THEN MatchFrom(s, start + len, fmt, j + 1, found)
            ELSE NoMatch
    ELSE IF fmt[j] = "%z"
    THEN IF OffsetLen(s, i) > 0
         THEN MatchFrom(s, i + OffsetLen(s, i), fmt, j + 1, acc)
         ELSE NoMatch
    ELSE IF fmt[j] = " "
    THEN IF SpaceRun(s, i) > 0
         THEN MatchFrom(s, i + SpaceRun(s, i), fmt, j + 1, acc)
         ELSE NoMatch
    ELSE IF i <= Len(s) /\ s[i] = fmt[j]
         THEN MatchFrom(s, i + 1, fmt, j + 1, acc)
         ELSE NoMatch

\* datetime.strptime(s, fmt): the date, or no match where it raises ValueError
\* (the text does not fit the format, or datetime(y, m, d) rejects the date)
strptime(s, fmt) ==
    LET r == MatchFrom(s, 1, fmt, 1, [ok |-> TRUE, y |-> 1900, m |-> 1, d |-> 1])
    IN IF r.ok /\ r.y \in 1..9999 /\ r.m \in 1..12
             /\ r.d \in 1..DaysInMonth(r.y, r.m)
       THEN r ELSE NoMatch

FmtDate == <<"%Y", "-", "%m", "-", "%d">>
FmtTime == <<"%H", ":", "%M", ":", "%S">>

\* date_formats of normalize_date (v1 lines 66-72, v2 lines 62-68)
date_formats ==
    << FmtDate,
       FmtDate \o <<"T">> \o FmtTime \o <<".", "%f", "Z">>,
       FmtDate \o <<"T">> \o FmtTime \o <<".", "%f">>,
       FmtDate \o <<" ">> \o FmtTime \o <<" ", "%z">>,
       FmtDate \o <<" ">> \o FmtTime >>

\* formats of parse_date (v3 lines 28-34)
formats ==
    << FmtDate \o <<"T">> \o FmtTime \o <<".", "%f", "Z">>,
       FmtDate \o <<"T">> \o FmtTime \o <<"Z">>,
       FmtDate \o <<" ">> \o FmtTime,
       FmtDate,
       <<"%Y", "/", "%m", "/", "%d">> >>

\* the first format of the list that parses s, from position k on; 0 when none does
RECURSIVE FirstFormat(_, _, _)
FirstFormat(s, fmts, k) ==
    IF k > Len(fmts) THEN 0
    ELSE IF strptime(s, fmts[k]).ok THEN k
    ELSE FirstFormat(s, fmts, k + 1)


\* Python values handed to the normalizer: a str, None, an int or a float
StrVal(s) == [t |-> "str", s |-> s]
NoneVal == [t |-> "none"]
FloatVal(whole, tenths) == [t |-> "float", whole |-> whole, tenths |-> tenths]

\* not value
Falsy(x) ==
    \/ x.t = "none"
    \/ x.t = "str" /\ x.s = <<>>
    \/ x.t = "int" /\ x.n = 0
    \/ x.t = "float" /\ x.whole = 0 /\ x.tenths = 0

\* str(value) of a non-negative value
PyStr(x) ==
    CASE x.t = "str" -> x.s
      [] x.t = "none" -> <<"N", "o", "n", "e">>
      [] x.t = "int" -> StrOf(x.n)
      [] x.t = "float" -> StrOf(x.whole) \o <<".">> \o StrOf(x.tenths)

Returns(s) == [raised |-> FALSE, value |-> StrVal(s)]
Raises == [raised |-> TRUE, value |-> NoneVal]

\* re.search(r'(\d+)', s): position of the first digit, 0 when there is none
RECURSIVE FirstDigit(_, _)
FirstDigit(s, i) ==
    IF i > Len(s) THEN 0 ELSE IF IsDigit(s[i]) THEN i ELSE FirstDigit(s, i + 1)

\* int(re.search(r'(\d+)', s).group(1)), where s has a digit
FirstInt(s) ==
    LET i == FirstDigit(s, 1) IN IntOf(SubSeq(s, i, i + DigitRun(s, i) - 1))

DateSeps == {"-", "/"}

\* r'\d{4}[-/]\d{1,2}[-/]\d{1,2}' matched at position i: the lengths of the month
\* and day groups, <<0, 0>> when there is no match there
LooseAt(s, i) ==
    LET ml == DigitRun(s, i + 5)
        dl == Min(2, DigitRun(s, i + 6 + ml))
    IN IF /\ DigitRun(s, i) >= 4
          /\ i + 4 <= Len(s) /\ s[i + 4] \in DateSeps
          /\ ml \in {1, 2}
          /\ i + 5 + ml <= Len(s) /\ s[i + 5 + ml] \in DateSeps
          /\ dl >= 1
       THEN <<ml, dl>> ELSE <<0, 0>>

\* re.search of that pattern: the position of the leftmost match, 0 when none
RECURSIVE LooseSearch(_, _)
LooseSearch(s, i) ==
    IF i > Len(s) THEN 0
    ELSE IF LooseAt(s, i) # <<0, 0>> THEN i ELSE LooseSearch(s, i + 1)

\* v1 line 85, v2 line 81: match.group(1).replace('/', '-')
LooseGroup(s) ==
    LET i == LooseSearch(s, 1)
        g == LooseAt(s, i)
        group1 == SubSeq(s, i, i + 5 + g[1] + g[2])
    IN [k \in 1..Len(group1) |-> IF group1[k] = "/" THEN "-" ELSE group1[k]]

\* v3 line 46: f"{group(1)}-{group(2).zfill(2)}-{group(3).zfill(2)}"
LoosePadded(s) ==
    LET i == LooseSearch(s, 1)
        g == LooseAt(s, i)
    IN SubSeq(s, i, i + 3) \o <<"-">> \o ZFill(SubSeq(s, i + 5, i + 4 + g[1]), 2)
       \o <<"-">> \o ZFill(SubSeq(s, i + 6 + g[1], i + 5 + g[1] + g[2]), 2)

TianQian == <<"tian", "qian">>
DaysAgo == <<"d", "a", "y", "s", " ", "a", "g", "o">>
DayAgo == <<"d", "a", "y", " ", "a", "g", "o">>

\* the two relative branches of normalize_date: some branch is entered and finds
\* a number (otherwise the bare except passes on to the formats)
IsRelative(s) ==
    /\ Contains(s, TianQian) \/ Contains(Lower(s), DaysAgo)
            \/ Contains(Lower(s), DayAgo)
    /\ FirstDigit(s, 1) # 0

\* normalize_date after the emptiness test, on the string s, at clock reading now;
\* rest is what the last line returns
NormalizeFrom(s, now, rest) ==
    IF IsRelative(s) THEN Returns(StrfDate(MinusDays(now, FirstInt(s))))
    ELSE IF FirstFormat(Prefix(s, 26), date_formats, 1) # 0
    THEN Returns(StrfDate(strptime(Prefix(s, 26),
                    date_formats[FirstFormat(Prefix(s, 26), date_formats, 1)])))
    ELSE IF LooseSearch(s, 1) # 0 THEN Returns(LooseGroup(s))
    ELSE Returns(rest)

\* data_merge_and_clean.py normalize_date: '"tianqian" in date_str' raises
\* TypeError for a number
normalize_date_v1(x, now) ==
    IF Falsy(x) THEN Returns(<<>>)
    ELSE IF x.t # "str" THEN Raises
    ELSE NormalizeFrom(x.s, now, x.s)

\* data_merge_and_clean_v2.py normalize_date: works on str(date_str)
normalize_date_v2(x, now) ==
    IF Falsy(x) THEN Returns(<<>>)
    ELSE NormalizeFrom(PyStr(x), now, Prefix(PyStr(x), 10))

\* data_merge_and_clean_v3.py parse_date: strptime raises TypeError for a number,
\* and only ValueError is caught
parse_date(x) ==
    IF Falsy(x) THEN Returns(<<>>)
    ELSE IF x.t # "str" THEN Raises
    ELSE IF FirstFormat(x.s, formats, 1) # 0
    THEN Returns(StrfDate(strptime(x.s, formats[FirstFormat(x.s, formats, 1)])))
    ELSE IF LooseSearch(x.s, 1) # 0 THEN Returns(LoosePadded(x.s))
    ELSE Returns(x.s)

\* the normalizer of a script version
Normalize(version, x, now) ==
    CASE version = "v1" -> normalize_date_v1(x, now)
      [] version = "v2" -> normalize_date_v2(x, now)
      [] version = "v3" -> parse_date(x)


MaxDaysAgo == 12     \* largest N of the relative dates tried

\* the arguments tried: None, numbers, the empty string, "2024" sep month sep day
\* spelled in the ways the raw files spell dates, "N days ago" / "N day ago" /
\* "N Days ago" / the Chinese form, and strings no strategy recognises
DateInputs ==
    {NoneVal, IntVal(0), IntVal(5), FloatVal(0, 0), FloatVal(3, 5), StrVal(<<>>),
     StrVal(<<"x">>), StrVal(DaysAgo),
     StrVal(<<"n", "o", "t", " ", "a", " ", "d", "a", "t", "e", "!">>)}
    \cup
    { StrVal(prefix \o <<"2", "0", "2", "4">> \o <<s1>> \o month \o <<s2>> \o day
             \o suffix) :
        prefix \in {<<>>, <<"x", " ">>},
        s1 \in DateSeps, s2 \in DateSeps,
        month \in {<<"1">>, <<"0", "2">>, <<"1", "2">>, <<"1", "3">>},
        day \in {<<"5">>, <<"0", "5">>, <<"3", "1">>},
        suffix \in {<<>>, <<" ", "x">>,
                    <<"T", "1", "0", ":", "0", "0", ":", "0", "0", "Z">>,
                    <<" ", "1", "0", ":", "0", "0", ":", "0", "0">>} }
    \cup
    { StrVal(StrOf(n) \o phrase) :
        n \in 0..MaxDaysAgo,
        phrase \in {<<" ">> \o DaysAgo, <<" ">> \o DayAgo, TianQian,
                    <<" ", "D", "a", "y", "s", " ", "a", "g", "o">>} }

InitDate ==
    /\ CleanerIdle
    /\ RelIdle
    /\ LaterIdleExcept("date")
    /\ pc = "d_start"
    /\ date_call \in [version : {"v1", "v2", "v3"},
                      now : {[y |-> 2025, m |-> 1, d |-> 10],
                             [y |-> 2024, m |-> 3, d |-> 1]},
                      input : DateInputs]
    /\ date_rets = <<>>

\* standardize_post: 'created_at': normalize_date(post.get('created_at', ''))
\* (v1 lines 145, 175; v2 lines 167, 207; v3 lines 70, 98)
NormalizeDate ==
    /\ pc = "d_start"
    /\ date_rets' = <<Normalize(date_call.version, date_call.input, date_call.now)>>
    /\ pc' = "d_once"
    /\ UNCHANGED <<date_call, cleanerVars, relVars, qualVars, sentVars, restVars>>

\* the returned value normalized once more, as when a merged file is merged again
NormalizeAgain ==
    /\ pc = "d_once"
    /\ ~date_rets[1].raised
    /\ date_rets' = Append(date_rets,
            Normalize(date_call.version, date_rets[1].value, date_call.now))
    /\ pc' = "d_twice"
    /\ UNCHANGED <<date_call, cleanerVars, relVars, qualVars, sentVars, restVars>>

NextDate == NormalizeDate \/ NormalizeAgain

SpecDate == InitDate /\ [][NextDate]_vars

-----------------------------------------------------------------------------
(* Properties of date normalization                                         *)

Normalized == pc \in {"d_once", "d_twice"}

\* the string the normalizer of the version works on
Worked == IF date_call.version = "v2" THEN PyStr(date_call.input) ELSE date_call.input.s

\* how the normalizer of the version recognises a date in a string
ByRelative(version, s) == version \in {"v1", "v2"} /\ IsRelative(s)

ByFormat(version, s) ==
    IF version = "v3" THEN FirstFormat(s, formats, 1) # 0
    ELSE FirstFormat(Prefix(s, 26), date_formats, 1) # 0

ByLoose(s) == LooseSearch(s, 1) # 0

Recognised(version, s) == ByRelative(version, s) \/ ByFormat(version, s) \/ ByLoose(s)

\* a zero-padded 10-character YYYY-MM-DD string
Canonical(s) ==
    /\ Len(s) = 10
    /\ \A k \in {1, 2, 3, 4, 6, 7, 9, 10} : IsDigit(s[k])
    /\ s[5] = "-" /\ s[8] = "-"

\* C13: normalize_date / parse_date returns a value without raising for a string,
\* None, an integer or a float, and returns the input string unchanged when none
\* of its strategies recognises a date.
C13_NeverRaises ==
    Normalized =>
        /\ ~date_rets[1].raised
        /\ ( /\ date_call.input.t = "str"
             /\ ~Recognised(date_call.version, date_call.input.s) )
           => date_rets[1].value = date_call.input

\* C14: when a date is recognised (absolute format, relative phrase or loose
\* extraction) the value returned is a zero-padded 10-character YYYY-MM-DD string,
\* and normalizing that value again returns it unchanged.
C14_CanonicalShape ==
    ( /\ Normalized
      /\ ~Falsy(date_call.input)
      /\ ~date_rets[1].raised
      /\ Recognised(date_call.version, Worked) ) =>
        /\ Canonical(date_rets[1].value.s)
        /\ (pc = "d_twice") => date_rets[2] = date_rets[1]

\* the inputs of the exact form "N days ago" or N followed by the Chinese phrase
NDaysAgo(n) == {StrVal(StrOf(n) \o <<" ">> \o DaysAgo), StrVal(StrOf(n) \o TianQian)}

\* C15: "N days ago" (or its Chinese form) normalized at reference time T gives the
\* calendar date of T minus N days as YYYY-MM-DD; "3 days ago" at 2025-01-10
\* gives "2025-01-07".
C15_RelativeDates ==
    Normalized =>
        \A n \in 0..(MaxDaysAgo + 1) :
            date_call.input \in NDaysAgo(n) =>
                /\ date_rets[1] = Returns(StrfDate(MinusDays(date_call.now, n)))
                /\ (n = 3 /\ date_call.now = [y |-> 2025, m |-> 1, d |-> 10]) =>
                      date_rets[1].value.s
                          = <<"2", "0", "2", "5", "-", "0", "1", "-", "0", "7">>

-----------------------------------------------------------------------------
(* main.py: DataCollectionApp.analyze_data                                  *)
(*                                                                          *)
(* The data file is [kind |-> "missing"] when no such file exists,          *)
(* [kind |-> "garbage"] when it is not JSON, [kind |-> "scalar"] for a JSON *)
(* value that is neither array nor object, [kind |-> "list", v |-> posts]   *)
(* for an array and [kind |-> "dict", items |-> ...] for an object: its     *)
(* items in file order, each [k |-> key, t |-> type of the value, v |->     *)
(* value].  A null field value is Absent.                                   *)

\* lines 207-224: the normalisation of posts_raw into posts_list, [found, v]
posts_list_of(posts_raw) ==
    IF posts_raw.kind = "list" THEN [found |-> TRUE, v |-> posts_raw.v]
    ELSE IF posts_raw.kind # "dict" THEN [found |-> FALSE, v |-> <<>>]
    ELSE LET items == posts_raw.items
             wrappers == <<"posts", "data", "items", "results">>
             ListAt(key) ==
                 {i \in 1..Len(items) : items[i].k = key /\ items[i].t = "list"}
             hits == {j \in 1..Len(wrappers) : ListAt(wrappers[j]) # {}}
             dicts == {i \in 1..Len(items) : items[i].t = "dict"}
         IN IF hits # {}
            THEN LET j == CHOOSE h \in hits : \A g \in hits : h <= g
                 IN [found |-> TRUE,
                     v |-> items[CHOOSE i \in ListAt(wrappers[j]) : TRUE].v]
            ELSE IF dicts # {}
            THEN [found |-> TRUE,
                  v |-> SelectIdx([i \in 1..Len(items) |-> items[i].v], dicts, 1)]
            ELSE [found |-> FALSE, v |-> <<>>]

\* len(p.get('content', '')) / title + ' ' + content / ' '.join(all_texts) raise
\* TypeError on a None content (quality_analyzer.py lines 153 and 178,
\* text_analyzer.py line 55)
NoneContent(ps) ==
    \E i \in 1..Len(ps) : Get(ps[i], "content", <<>>) = Absent

\* platform.upper() raises AttributeError on a None platform
\* (report_generator.py lines 106 and 212)
NonePlatform(ps) ==
    \E i \in 1..Len(ps) : Get(ps[i], "platform", <<"unknown">>) = Absent

\* QualityAnalyzer.analyze: the parts of the result the later stages read
analyze(ps) ==
    [basic_stats |-> [total_posts |-> Len(ps), valid_posts |-> ValidPosts(ps)],
     quality_checks |-> _perform_quality_checks(ps)]

\* QualityAnalyzer.generate_summary: the lines under the advice heading
generate_summary(analysis_result) ==
    LET quality == analysis_result.quality_checks IN
    (IF ~quality.meets_min_posts THEN <<"tiezi shu buzu">> ELSE <<>>)
    \o (IF ~quality.meets_min_comments THEN <<"youxiao tiezi shu buzu">> ELSE <<>>)
    \o << IF quality.overall_quality_score >= 8000 THEN "shuju zhiliang lianghao"
          ELSE IF quality.overall_quality_score >= 6000 THEN "shuju zhiliang zhongdeng"
          ELSE "shuju zhiliang jiaocha" >>

\* text_analyzer.py lines 123-124
positive_keywords ==
    << <<"ji", "hui">>, <<"xue", "xi">>, <<"cheng", "zhang">>,
       <<"ti", "sheng">>, <<"you", "hua">>, <<"chuang", "xin">>,
       <<"wei", "lai">>, <<"bang", "zhu">>, <<"ti", "gao">>,
       <<"jin", "bu">> >>
negative_keywords ==
    << <<"shi", "ye">>, <<"tao", "tai">>, <<"qu", "dai">>,
       <<"dan", "xin">>, <<"jiao", "lv">>, <<"kun", "nan">>,
       <<"wei", "ji">>, <<"wei", "xie">>, <<"xiao", "shi">>,
       <<"cai", "yuan">> >>

\* TextAnalyzer._analyze_sentiment_simple: the three counts
_analyze_sentiment_simple(ps) ==
    LET diff(p) == Hits(positive_keywords, FullText(p))
                   - Hits(negative_keywords, FullText(p))
        n == Len(ps)
    IN [positive |-> Cardinality({i \in 1..n : diff(ps[i]) > 0}),
        negative |-> Cardinality({i \in 1..n : diff(ps[i]) < 0}),
        neutral |-> Cardinality({i \in 1..n : diff(ps[i]) = 0})]

\* ReportGenerator.generate_report: the rows of the quality table, the number
\* of rows of the source table and the assessment of the conclusion
generate_report(ps, quality_analysis, text_analysis) ==
    LET quality == quality_analysis.quality_checks
        status(ok) == IF ok THEN "tongguo" ELSE "bu tongguo"
    IN [total_posts |-> quality_analysis.basic_stats.total_posts,
        meets_min_posts |-> status(quality.meets_min_posts),
        meets_min_comments |-> status(quality.meets_min_comments),
        sentiment |-> text_analysis.sentiment_distribution,
        sources |-> Len(ps),
        quality_assessment |->
            IF quality.overall_quality_score >= 8000 THEN "youxiu"
            ELSE IF quality.overall_quality_score >= 6000 THEN "lianghao"
            ELSE "dai gaijin"]


MaxRunPosts == 2     \* longest list of small posts in a data file

\* list elements of a data file: posts whose content and platform are a
\* string, null or left out, a duplicate-free second url, a blank title, a
\* post with comments, and an element that is not an object
RunPosts ==
    { [url |-> <<"h">>, title |-> <<"A">>] @@ c @@ pf :
        c \in {Empty, [content |-> <<"x">>], [content |-> Absent]},
        pf \in {Empty, [platform |-> <<"v2ex">>], [platform |-> Absent]} }
    \cup { [url |-> <<"g">>, title |-> <<"shi", "ye">>],
           [url |-> <<"g">>, title |-> <<" ">>],
           [url |-> <<"g">>, title |-> <<"B">>, comments |-> TwoComments] }

\* a corpus of MIN_POSTS_REQUIRED posts with distinct urls, k of them with
\* MIN_COMMENTS_PER_POST comments
RunCorpus(k) ==
    LET n == MIN_POSTS_REQUIRED IN
    [i \in 1..n |->
        Corpus(n, k, n, n)[i] @@ [url |-> <<"h">> \o StrOf(i), title |-> <<"A">>]]

\* the JSON object a scraper writes for one post: its fields in order, then extra
PostObject(p, extra) ==
    LET keys == <<"url", "platform", "title", "content", "comments">>
        item(k) == [k |-> k,
                    t |-> IF k = "comments" THEN "list"
                          ELSE IF Get(p, k, <<>>) = Absent THEN "null" ELSE "str",
                    v |-> Get(p, k, <<>>)]
    IN [kind |-> "dict",
        items |-> SelectIdx([i \in 1..Len(keys) |-> item(keys[i])],
                            {i \in 1..Len(keys) : keys[i] \in DOMAIN p}, 1)
                  \o extra]

InitRun ==
    /\ polars \in BOOLEAN
    /\ posts = <<>>
    /\ stats = NewStats
    /\ result = <<>>
    /\ raised = FALSE
    /\ first = <<>>
    /\ merged = <<>>
    /\ RelIdle
    /\ LaterIdleExcept("run")
    /\ pc = "a_start"
    /\ \/ in_file \in {[kind |-> "missing"], [kind |-> "garbage"], [kind |-> "scalar"]}
       \/ \E ps \in SeqsUpTo(RunPosts \cup {NotDict}, MaxRunPosts) :
            in_file = [kind |-> "list", v |-> Indexed(ps)]
       \/ \E k \in {0, MIN_POSTS_REQUIRED - 1, MIN_POSTS_REQUIRED} :
            in_file = [kind |-> "list", v |-> Indexed(RunCorpus(k))]
       \/ \E p \in RunPosts,
             extra \in {<<>>, <<[k |-> "metadata", t |-> "dict",
                                 v |-> [comment_count |-> 2]]>>} :
            in_file = PostObject(p, extra)
       \/ \E p \in RunPosts, key \in {"posts", "data", "items", "results", "list"} :
            in_file = [kind |-> "dict",
                       items |-> << [k |-> "posts", t |-> "str", v |-> <<"x">>],
                                    [k |-> "meta", t |-> "dict", v |-> p],
                                    [k |-> key, t |-> "list", v |-> Indexed(<<p>>)] >>]
    /\ out_files = <<>>
    /\ run = <<>>

\* lines 179-228: locate and load the data file, extract the list of posts
LoadData ==
    /\ pc = "a_start"
    /\ IF in_file.kind \in {"missing", "garbage"}
       THEN pc' = "a_exit" /\ UNCHANGED posts
       ELSE LET r == posts_list_of(in_file) IN
            IF r.found THEN pc' = "a_loaded" /\ posts' = r.v
            ELSE pc' = "a_exit" /\ UNCHANGED posts
    /\ UNCHANGED <<polars, stats, result, raised, first, merged, relVars,
                   qualVars, sentVars, dateVars, runVars, batchVars, postVars, lastVars>>

\* lines 230-237
CleanData ==
    /\ pc = "a_loaded"
    /\ LET r == clean_posts(posts, NewStats, polars) IN
       /\ stats' = r.stats
       /\ result' = r.out
       /\ raised' = r.raised
       /\ pc' = IF r.raised THEN "a_exit" ELSE "a_cleaned"
    /\ UNCHANGED <<polars, posts, first, merged, relVars, laterVars>>

\* lines 239-247: save_json(cleaned_posts, cleaned_file)
SaveCleaned ==
    /\ pc = "a_cleaned"
    /\ out_files' = out_files @@ ("cleaned" :> result)
    /\ pc' = "a_saved"
    /\ UNCHANGED <<cleanerVars, relVars, qualVars, sentVars, dateVars,
                   in_file, run, batchVars, postVars, lastVars>>

\* lines 249-259
QualityAnalysis ==
    /\ pc = "a_saved"
    /\ IF NoneContent(result)
       THEN pc' = "a_exit" /\ UNCHANGED run
       ELSE /\ run' = run @@ ("quality_result" :> analyze(result))
                         @@ ("summary" :> generate_summary(analyze(result)))
            /\ pc' = "a_quality"
    /\ UNCHANGED <<cleanerVars, relVars, qualVars, sentVars, dateVars,
                   in_file, out_files, batchVars, postVars, lastVars>>

\* lines 261-268
TextAnalysis ==
    /\ pc = "a_quality"
    /\ IF NoneContent(result)
       THEN pc' = "a_exit" /\ UNCHANGED run
       ELSE /\ run' = run @@ ("text_result" :>
                         [sentiment_distribution |-> _analyze_sentiment_simple(result)])
            /\ pc' = "a_text"
    /\ UNCHANGED <<cleanerVars, relVars, qualVars, sentVars, dateVars,
                   in_file, out_files, batchVars, postVars, lastVars>>

\* lines 270-285
GenerateReport ==
    /\ pc = "a_text"
    /\ IF NonePlatform(result)
       THEN pc' = "a_exit" /\ UNCHANGED out_files
       ELSE /\ out_files' = out_files @@ ("report" :>
                generate_report(result, run["quality_result"], run["text_result"]))
            /\ pc' = "a_done"
    /\ UNCHANGED <<cleanerVars, relVars, qualVars, sentVars, dateVars,
                   in_file, run, batchVars, postVars, lastVars>>

NextRun ==
    \/ LoadData \/ CleanData \/ SaveCleaned
    \/ QualityAnalysis \/ TextAnalysis \/ GenerateReport

SpecRun == InitRun /\ [][NextRun]_vars


-----------------------------------------------------------------------------
(* Properties of analyze_data                                               *)

Aborted == pc = "a_exit"

\* C16: whenever a run of analyze_data has aborted, it has written no output
\* file, neither the cleaned-corpus file nor the report.
C16_NoPartialOutput == Aborted => DOMAIN out_files = {}

\* the data file holds a list of objects none of whose fields is null
WellFormedCorpus ==
    /\ in_file.kind = "list"
    /\ FirstBad(in_file.v, 1) = 0
    /\ ~NoneContent(in_file.v)
    /\ ~NonePlatform(in_file.v)

TooFewPosts == Len(in_file.v) < MIN_POSTS_REQUIRED

Shortfall == TooFewPosts \/ ValidPosts(in_file.v) < MIN_POSTS_REQUIRED

InSummary(line) == \E i \in 1..Len(run["summary"]) : run["summary"][i] = line

\* the summary and the report of a completed run say which threshold is missed
StatesShortfall ==
    /\ InSummary("youxiao tiezi shu buzu")
    /\ out_files["report"].meets_min_comments = "bu tongguo"
    /\ TooFewPosts =>
        /\ InSummary("tiezi shu buzu")
        /\ out_files["report"].meets_min_posts = "bu tongguo"

\* C17: on a well-formed corpus that misses a threshold the run never exits
\* with an error, and when it has completed its summary and its report state
\* the shortfall.
C17_ShortfallIsNoError ==
    (WellFormedCorpus /\ Shortfall) =>
        /\ ~Aborted
        /\ pc = "a_done" => StatesShortfall

\* the data file holds one object with the fields of a post
PostShaped ==
    /\ in_file.kind = "dict"
    /\ \E i \in 1..Len(in_file.items) : in_file.items[i].k = "url"

\* that object as a post
PostOf ==
    LET items == in_file.items IN
    [k \in {items[i].k : i \in 1..Len(items)} |->
        items[CHOOSE i \in 1..Len(items) : items[i].k = k].v]

\* C18: once loaded, a single post-shaped object is handled as the list of that
\* one post, and a list is handed on as it is and cleaned in list order.
C18_BothShapes ==
    pc # "a_start" =>
        /\ PostShaped => posts = <<PostOf>>
        /\ in_file.kind = "list" =>
            /\ posts = in_file.v
            /\ \A i, j \in 1..Len(result) : i < j => result[i]["idx"] < result[j]["idx"]


-----------------------------------------------------------------------------
(* ai_search/relevance_evaluator.py: batch evaluation and its report        *)

MaxBatch == 2        \* longest list handed to batch_evaluate

\* RelevanceEvaluator._generate_evaluation_prompt: the two values it formats in
_generate_evaluation_prompt(post_data) ==
    [title |-> Get(post_data, "title", <<>>),
     content |-> Prefix(Get(post_data, "content", <<>>), 500)]

\* RelevanceEvaluator.evaluate_post_ai_assisted
evaluate_post_ai_assisted(post_data) ==
    [needs_ai_evaluation |-> TRUE,
     prompt |-> _generate_evaluation_prompt(post_data),
     post_data |-> post_data]

\* RelevanceEvaluator.batch_evaluate
batch_evaluate(ps, method) ==
    IF method = "simple" THEN [i \in 1..Len(ps) |-> evaluate_post_simple(ps[i])]
    ELSE IF method = "ai_assisted"
    THEN [i \in 1..Len(ps) |-> evaluate_post_ai_assisted(ps[i])]
    ELSE <<>>

\* RelevanceEvaluator.generate_evaluation_report: attribute access on an
\* element without the attribute raises AttributeError (line 184)
generate_evaluation_report(scores) ==
    IF \E i \in 1..Len(scores) : "is_relevant" \notin DOMAIN scores[i]
    THEN [raised |-> TRUE]
    ELSE LET relevant == {i \in 1..Len(scores) : scores[i].is_relevant}
             urls == [i \in 1..Len(scores) |-> scores[i].url]
         IN [raised |-> FALSE,
             total |-> Len(scores),
             relevant_count |-> Cardinality(relevant),
             score_sum |-> SumSeq([i \in 1..Len(scores) |-> scores[i].score]),
             relevant |-> SelectIdx(urls, relevant, 1),
             irrelevant |-> SelectIdx(urls, (1..Len(scores)) \ relevant, 1)]

BatchPosts ==
    { [url |-> u, title |-> t] :
        u \in {<<"h">>, <<"g">>}, t \in SeqsUpTo(RelUnits, 1) }

InitBatch ==
    /\ CleanerIdle
    /\ RelIdle
    /\ LaterIdleExcept("batch")
    /\ pc = "b_start"
    /\ \E ps \in SeqsUpTo(BatchPosts, MaxBatch),
          method \in {"simple", "ai_assisted", "manual"} :
            batch_call = [posts |-> ps, method |-> method]
    /\ batch_rets = <<>>

\* results = evaluator.batch_evaluate(posts, method)
BatchEvaluate ==
    /\ pc = "b_start"
    /\ batch_rets' = [results |-> batch_evaluate(batch_call.posts, batch_call.method)]
    /\ pc' = "b_evaluated"
    /\ UNCHANGED <<batch_call, cleanerVars, relVars, qualVars, sentVars, dateVars,
                   runVars, postVars, lastVars>>

\* evaluator.generate_evaluation_report(results)
GenerateEvaluationReport ==
    /\ pc = "b_evaluated"
    /\ batch_rets' = batch_rets
                     @@ ("report" :> generate_evaluation_report(batch_rets.results))
    /\ pc' = "b_reported"
    /\ UNCHANGED <<batch_call, cleanerVars, relVars, qualVars, sentVars, dateVars,
                   runVars, postVars, lastVars>>

NextBatch == BatchEvaluate \/ GenerateEvaluationReport

SpecBatch == InitBatch /\ [][NextBatch]_vars

-----------------------------------------------------------------------------
(* Properties of batch evaluation                                           *)

JudgmentFields == {"is_relevant", "score", "reasons", "confidence"}

\* results[i] is the evaluation of posts[i]
InInputOrder ==
    /\ Len(batch_rets.results) = Len(batch_call.posts)
    /\ \A i \in 1..Len(batch_rets.results) :
        IF batch_call.method = "simple"
        THEN batch_rets.results[i] = evaluate_post_simple(batch_call.posts[i])
        ELSE Get(batch_rets.results[i], "post_data", <<>>) = batch_call.posts[i]

\* C19: for method 'simple' and for method 'ai_assisted', batch_evaluate
\* returns one result per post in input order, every result carries
\* is_relevant, score, reasons and confidence, and generate_evaluation_report
\* builds its report from the results without raising.
C19_Interchangeable ==
    (pc \in {"b_evaluated", "b_reported"}
     /\ batch_call.method \in {"simple", "ai_assisted"}) =>
        /\ InInputOrder
        /\ \A i \in 1..Len(batch_rets.results) :
            JudgmentFields \subseteq DOMAIN batch_rets.results[i]
        /\ pc = "b_reported" => ~batch_rets.report.raised


-----------------------------------------------------------------------------
(* models/post.py: Post and PostMetadata                                    *)

MaxPostComments == 3   \* longest comment list of a Post

\* PostMetadata(): every counter defaults to 0
PostMetadata ==
    [view_count |-> 0, follow_count |-> 0, upvote_count |-> 0, comment_count |-> 0]

\* the allowed lists of validate_platform and validate_post_type
AllowedPlatforms == {<<"zhihu">>, <<"v2ex">>, <<"xiaohongshu">>, <<"bilibili">>}
AllowedPostTypes == {<<"question">>, <<"article">>, <<"topic">>, <<"video">>}

\* Post(**kw): the fields that fail validation (ValidationError when there are
\* any) and the object built otherwise.  platform and post_type go through
\* their validators (lines 83-99), title only through min_length=1 (line 40).
Post(kw) ==
       [errors |-> {f \in {"platform"} : Lower(kw.platform) \notin AllowedPlatforms}
                   \cup {f \in {"post_type"} : Lower(kw.post_type) \notin AllowedPostTypes}
                   \cup {f \in {"title"} : Len(kw.title) < 1},
        obj |-> [platform |-> Lower(kw.platform), post_type |-> Lower(kw.post_type),
                 url |-> kw.url, title |-> kw.title, metadata |-> kw.metadata,
                 comments |-> kw.comments, is_relevant |-> kw.is_relevant]]

\* Post.get_comment_count
get_comment_count(self) == Len(self.comments)

\* Post.update_metadata: the object after the call
update_metadata(self) ==
    [self EXCEPT !.metadata.comment_count = get_comment_count(self)]

\* is_valid_for_analysis with an unjudged post counted as not eligible
is_valid_for_analysis_judged(self, min_comments) ==
    get_comment_count(self) >= min_comments /\ self.is_relevant = "True"

\* Post.is_valid_for_analysis; is_relevant is "None", "True" or "False"
is_valid_for_analysis(self, min_comments) ==
    get_comment_count(self) >= min_comments /\ self.is_relevant # "False"

PostComments == {[content |-> <<"c">>, author |-> <<"a">>],
                 [content |-> <<"d">>, author |-> <<"b">>]}

\* a Post as its constructor leaves it: metadata defaulted, or passed in with
\* the counts the scraper read off the page
InitPost ==
    /\ CleanerIdle
    /\ RelIdle
    /\ LaterIdleExcept("post")
    /\ pc = "p_new"
    /\ \E comments \in SeqsUpTo(PostComments, MaxPostComments),
          metadata \in {PostMetadata}
                       \cup {[PostMetadata EXCEPT !.view_count = 7, !.comment_count = k] :
                                k \in 0..MaxPostComments},
          is_relevant \in {"None", "True", "False"} :
            post_obj = Post([platform |-> <<"zhihu">>, post_type |-> <<"question">>,
                             url |-> <<"h">>, title |-> <<"A">>,
                             metadata |-> metadata, comments |-> comments,
                             is_relevant |-> is_relevant]).obj
    /\ post_ret = <<>>

\* post.comments.append(comment)
AddComment ==
    /\ pc \in {"p_new", "p_added", "p_removed", "p_updated", "p_checked"}
    /\ Len(post_obj.comments) < MaxPostComments
    /\ \E c \in PostComments :
        post_obj' = [post_obj EXCEPT !.comments = Append(@, c)]
    /\ post_ret' = <<>>
    /\ pc' = "p_added"
    /\ UNCHANGED <<cleanerVars, relVars, qualVars, sentVars, dateVars,
                   runVars, batchVars, lastVars>>

\* del post.comments[i]
RemoveComment ==
    /\ pc \in {"p_new", "p_added", "p_removed", "p_updated", "p_checked"}
    /\ \E i \in 1..Len(post_obj.comments) :
        post_obj' = [post_obj EXCEPT
                        !.comments = SelectIdx(@, (1..Len(@)) \ {i}, 1)]
    /\ post_ret' = <<>>
    /\ pc' = "p_removed"
    /\ UNCHANGED <<cleanerVars, relVars, qualVars, sentVars, dateVars,
                   runVars, batchVars, lastVars>>

\* post.update_metadata()
UpdateMetadata ==
    /\ pc \in {"p_new", "p_added", "p_removed", "p_updated", "p_checked"}
    /\ post_obj' = update_metadata(post_obj)
    /\ post_ret' = <<>>
    /\ pc' = "p_updated"
    /\ UNCHANGED <<cleanerVars, relVars, qualVars, sentVars, dateVars,
                   runVars, batchVars, lastVars>>

\* post.is_valid_for_analysis(min_comments); 100 is the default
IsValidForAnalysis ==
    /\ pc \in {"p_new", "p_added", "p_removed", "p_updated", "p_checked"}
    /\ \E min_comments \in (0..(MaxPostComments + 1)) \cup {100} :
        post_ret' = [min_comments |-> min_comments,
                     value |-> is_valid_for_analysis(post_obj, min_comments)]
    /\ pc' = "p_checked"
    /\ UNCHANGED <<post_obj, cleanerVars, relVars, qualVars, sentVars, dateVars,
                   runVars, batchVars, lastVars>>

NextPost == AddComment \/ RemoveComment \/ UpdateMetadata \/ IsValidForAnalysis

SpecPost == InitPost /\ [][NextPost]_vars

-----------------------------------------------------------------------------
(* Properties of the Post model                                             *)

CountMatches(p) == p.metadata.comment_count = Len(p.comments)

\* update_metadata sets the count, leaves every other field alone, and a
\* second call changes nothing
UpdateContract(p) ==
    LET once == update_metadata(p) IN
    /\ CountMatches(once)
    /\ \A f \in DOMAIN p \ {"metadata"} : once[f] = p[f]
    /\ \A f \in DOMAIN p.metadata \ {"comment_count"} :
        once.metadata[f] = p.metadata[f]
    /\ update_metadata(once) = once

\* C20: in every state of a Post reachable by construction, additions and
\* removals of comments and update_metadata calls, metadata.comment_count
\* equals len(comments), and update_metadata keeps its contract.
C20_CommentCountInvariant == CountMatches(post_obj) /\ UpdateContract(post_obj)

-----------------------------------------------------------------------------
(* models/post.py, models/comment.py: construction                          *)

\* Comment(**kw): content goes through min_length=1 (line 18), then through
\* validate_content, which strips it and rejects an empty rest (lines 53-61)
Comment(kw) ==
    [errors |-> {f \in {"content"} : Len(kw.content) < 1 \/ Strip(kw.content) = <<>>},
     obj |-> [content |-> Strip(kw.content), author |-> kw.author]]

InitNew ==
    /\ CleanerIdle
    /\ RelIdle
    /\ LaterIdleExcept("call")
    /\ pc = "n_start"
    /\ \/ \E platform \in {<<"zhihu">>, <<"Zhihu">>, <<"v2ex">>, <<"reddit">>, <<>>},
             post_type \in {<<"question">>, <<"Topic">>, <<"answer">>, <<>>},
             title \in {<<"A">>, <<" ", "A", " ">>, <<" ">>, <<" ", "\n">>, <<>>} :
            call = [cls |-> "Post",
                    kw |-> [platform |-> platform, post_type |-> post_type,
                            url |-> <<"h">>, title |-> title,
                            metadata |-> PostMetadata, comments |-> <<>>,
                            is_relevant |-> "None"]]
       \/ \E content \in {<<"c">>, <<" ", "c", "\n">>, <<" ">>, <<"\n", " ">>, <<>>},
             author \in {<<"a">>, <<>>} :
            call = [cls |-> "Comment", kw |-> [content |-> content, author |-> author]]
    /\ rets = <<>>

\* Post(**kw)
ConstructPost ==
    /\ pc = "n_start"
    /\ call.cls = "Post"
    /\ rets' = Post(call.kw)
    /\ pc' = "n_done"
    /\ UNCHANGED <<call, retry, scrape, cleanerVars, relVars, qualVars, sentVars,
                   dateVars, runVars, batchVars, postVars>>

\* Comment(**kw)
ConstructComment ==
    /\ pc = "n_start"
    /\ call.cls = "Comment"
    /\ rets' = Comment(call.kw)
    /\ pc' = "n_done"
    /\ UNCHANGED <<call, retry, scrape, cleanerVars, relVars, qualVars, sentVars,
                   dateVars, runVars, batchVars, postVars>>

NextNew == ConstructPost \/ ConstructComment

SpecNew == InitNew /\ [][NextNew]_vars

-----------------------------------------------------------------------------
(* Properties of construction                                               *)

Constructed(cls) == pc = "n_done" /\ call.cls = cls

Blank(s) == Strip(s) = <<>>

\* C22: constructing a Post fails when platform or post_type is outside its
\* allowed list or title is empty after trimming, constructing a Comment fails
\* when content is empty after trimming, and an object that was built has no
\* such field value.
C22_ConstructionValidation ==
    /\ Constructed("Post") =>
        /\ (\/ Lower(call.kw.platform) \notin AllowedPlatforms
            \/ Lower(call.kw.post_type) \notin AllowedPostTypes
            \/ Blank(call.kw.title)) => rets.errors # {}
        /\ rets.errors = {} =>
            /\ rets.obj.platform \in AllowedPlatforms
            /\ rets.obj.post_type \in AllowedPostTypes
            /\ ~Blank(rets.obj.title)
    /\ Constructed("Comment") =>
        /\ Blank(call.kw.content) => rets.errors # {}
        /\ rets.errors = {} => ~Blank(rets.obj.content)


-----------------------------------------------------------------------------
(* analytics/text_analyzer.py: the sentiment distribution of the pipeline   *)

MaxHits == 4         \* most keywords of one polarity in a post
MaxSimplePosts == 2  \* longest list handed to _analyze_sentiment_simple

\* the first n words of a keyword list, each followed by a space
RECURSIVE Words(_, _)
Words(kws, n) ==
    IF n = 0 THEN <<>> ELSE Words(kws, n - 1) \o kws[n] \o <<" ">>

InitSimple ==
    /\ CleanerIdle
    /\ RelIdle
    /\ LaterIdleExcept("call")
    /\ pc = "t_start"
    /\ \E ps \in SeqsUpTo({ [title |-> Words(positive_keywords, p),
                             content |-> Words(negative_keywords, n)] :
                               p \in 0..MaxHits, n \in 0..MaxHits },
                          MaxSimplePosts) :
          call = ps
    /\ rets = <<>>

\* analyze_texts, line 60: 'sentiment_distribution': self._analyze_sentiment_simple(posts)
AnalyzeSentimentSimple ==
    /\ pc = "t_start"
    /\ rets' = _analyze_sentiment_simple(call)
    /\ pc' = "t_done"
    /\ UNCHANGED <<call, retry, scrape, cleanerVars, relVars, qualVars, sentVars,
                   dateVars, runVars, batchVars, postVars>>

NextSimple == AnalyzeSentimentSimple

SpecSimple == InitSimple /\ [][NextSimple]_vars

-----------------------------------------------------------------------------
(* Properties of the pipeline sentiment distribution                        *)

Pos(p) == Hits(positive_keywords, FullText(p))
Neg(p) == Hits(negative_keywords, FullText(p))

\* the posts of the list whose score (pos - neg)/(pos + neg) is above 0.2
ScoredPositive == {i \in 1..Len(call) : 5 * (Pos(call[i]) - Neg(call[i])) > Pos(call[i]) + Neg(call[i])}

\* the posts of the list whose score is below -0.2
ScoredNegative == {i \in 1..Len(call) : 5 * (Pos(call[i]) - Neg(call[i])) < 0 - (Pos(call[i]) + Neg(call[i]))}

\* C23: _analyze_sentiment_simple tallies a post as positive iff its score
\* (pos - neg)/(pos + neg) is above 0.2, as negative iff it is below -0.2 and
\* as neutral otherwise, each post once.
C23_LabelThresholds ==
    pc = "t_done" =>
        /\ rets.positive = Cardinality(ScoredPositive)
        /\ rets.negative = Cardinality(ScoredNegative)
        /\ rets.neutral = Len(call) - Cardinality(ScoredPositive \cup ScoredNegative)
        /\ rets.positive + rets.negative + rets.neutral = Len(call)


-----------------------------------------------------------------------------
(* scripts/data_merge_and_clean_v3.py and scripts/text_analysis.py: the     *)
(* year distribution of the merged posts and the per-year sentiment trend.  *)
(* A raw post carries its source file, a title and a created_at value; a    *)
(* missing created_at key reads as '' through post.get('created_at', '').   *)

MaxTrendPosts == 2   \* most raw posts of one merge

\* standardize_reddit_post / standardize_v2ex_post (v3 lines 51-104), the fields
\* the statistics read
standardize_post(post) ==
    [platform |-> post.src,
     title |-> merge_clean_text(post.title),
     content |-> <<>>,
     created_at |-> parse_date(post.created_at).value.s,
     language |-> IF post.src = "v2ex" THEN "zh" ELSE "en"]

\* the keys of a defaultdict filled with date_str[:4] of the non-empty dates
YearKeys(ps) == {Prefix(ps[i].created_at, 4) : i \in {j \in 1..Len(ps) : ps[j].created_at # <<>>}}

InYear(ps, year) == {i \in 1..Len(ps) : ps[i].created_at # <<>> /\ Prefix(ps[i].created_at, 4) = year}

\* v3 main lines 162-171: year_stats[year] += 1
year_stats(all_posts) ==
    [year \in YearKeys(all_posts) |-> Cardinality(InYear(all_posts, year))]

\* text_analysis.py is_chinese: more than 30% of the word characters are Chinese
is_chinese(text) ==
    LET chinese_chars == Cardinality({i \in 1..Len(text) : text[i] \in {"hao", "cha"}})
        total_chars == Cardinality({i \in 1..Len(text) : text[i] \notin Whitespace})
    IN IF total_chars > 0 THEN 10 * chinese_chars > 3 * total_chars ELSE FALSE

\* f"{post.get('title', '')} {post.get('content', '')}"
TitleAndContent(post) == post.title \o <<" ">> \o post.content

\* text_analysis.py main lines 302-308: the posts that go to zh_texts
ZhPosts(ps) ==
    {i \in 1..Len(ps) : ps[i].language = "zh" \/ is_chinese(TitleAndContent(ps[i]))}

\* text_analysis.py main lines 360-379: count and mean score (thousandths) per year
time_trend(ps) ==
    [year \in YearKeys(ps) |->
        LET members == SelectIdx(ps, InYear(ps, year), 1)
            scores == [k \in 1..Len(members) |->
                          analyze_sentiment(TitleAndContent(members[k]),
                              IF members[k].language = "zh" THEN "zh" ELSE "en").score]
        IN [count |-> Len(scores),
            avg_sentiment |-> RoundDiv(SumSeq(scores), Len(scores))]]

InitTrend ==
    /\ CleanerIdle
    /\ RelIdle
    /\ LaterIdleExcept("call")
    /\ pc = "y_start"
    /\ \E raw \in SeqsUpTo(
              { [src |-> st[1], title |-> st[2], created_at |-> created_at] :
                  st \in {<<"reddit", <<"Good", " ", " ", "x">> >>,
                          <<"reddit", <<"bad">> >>, <<"v2ex", <<"hao">> >>},
                  created_at \in
                     {NoneVal, StrVal(<<>>),
                      StrVal(<<"2", "0", "2", "4", "-", "0", "1", "-", "0", "5">>),
                      StrVal(<<"x", " ", "2", "0", "2", "3", "/", "3", "/", "1">>),
                      StrVal(<<"5", " ">> \o DaysAgo),
                      StrVal(<<"n", "o", "t", " ", "a", " ", "d", "a", "t", "e", "!">>)} },
              MaxTrendPosts) :
          call = raw
    /\ rets = <<>>

\* v3 main lines 120-142: all_posts, written to merged_posts.json
MergePosts ==
    /\ pc = "y_start"
    /\ rets' = [all_posts |-> [i \in 1..Len(call) |-> standardize_post(call[i])]]
    /\ pc' = "y_merged"
    /\ UNCHANGED <<call, retry, scrape, cleanerVars, relVars, qualVars, sentVars,
                   dateVars, runVars, batchVars, postVars>>

\* v3 main lines 157-190: the statistics
YearStats ==
    /\ pc = "y_merged"
    /\ rets' = [all_posts |-> rets.all_posts,
                year_distribution |-> year_stats(rets.all_posts)]
    /\ pc' = "y_stats"
    /\ UNCHANGED <<call, retry, scrape, cleanerVars, relVars, qualVars, sentVars,
                   dateVars, runVars, batchVars, postVars>>

\* text_analysis.py main on the merged file: the texts of the keyword and
\* sentiment aggregates and the time trend
TextAnalysisMain ==
    /\ pc = "y_stats"
    /\ rets' = [all_posts |-> rets.all_posts,
                year_distribution |-> rets.year_distribution,
                zh_texts |-> ZhPosts(rets.all_posts),
                en_texts |-> (1..Len(rets.all_posts)) \ ZhPosts(rets.all_posts),
                time_trend |-> time_trend(rets.all_posts)]
    /\ pc' = "y_done"
    /\ UNCHANGED <<call, retry, scrape, cleanerVars, relVars, qualVars, sentVars,
                   dateVars, runVars, batchVars, postVars>>

NextTrend == MergePosts \/ YearStats \/ TextAnalysisMain

SpecTrend == InitTrend /\ [][NextTrend]_vars

-----------------------------------------------------------------------------
(* Properties of the year buckets                                           *)

\* the raw posts whose created_at parse_date recognises as a date
Parseable ==
    {i \in 1..Len(call) : /\ ~Falsy(call[i].created_at)
                          /\ Recognised("v3", call[i].created_at.s)}

FourDigitYear(key) == Len(key) = 4 /\ \A k \in 1..4 : IsDigit(key[k])

\* the parseable posts whose canonical date begins with the year
ParseableIn(year) == {i \in Parseable : Prefix(rets.all_posts[i].created_at, 4) = year}

\* C24: every key of the year distribution and of the time trend is a four-digit
\* year, its count is the number (at least one) of posts with a parseable
\* created_at of that year, every such post is in a bucket, and every post, dated
\* or not, is among the texts of the keyword and sentiment aggregates.
C24_YearBuckets ==
    pc = "y_done" =>
        /\ DOMAIN rets.time_trend = DOMAIN rets.year_distribution
        /\ \A year \in DOMAIN rets.year_distribution :
              /\ FourDigitYear(year)
              /\ rets.year_distribution[year] >= 1
              /\ rets.year_distribution[year] = Cardinality(ParseableIn(year))
              /\ rets.time_trend[year].count = rets.year_distribution[year]
        /\ \A i \in Parseable :
              Prefix(rets.all_posts[i].created_at, 4) \in DOMAIN rets.year_distribution
        /\ rets.zh_texts \cup rets.en_texts = 1..Len(call)


-----------------------------------------------------------------------------
(* clean_text of utils/helpers.py and of the merge scripts, applied to a    *)
(* text and then to its own result                                          *)

MaxTextLen == 5      \* longest text handed to clean_text

\* clean_text of the module named: "helpers" is utils/helpers.py, "merge" is
\* data_merge_and_clean.py and data_merge_and_clean_v3.py (the same three steps)
CleanTextOf(module, text) ==
    IF module = "helpers" THEN clean_text(text) ELSE merge_clean_text(text)

InitClean ==
    /\ CleanerIdle
    /\ RelIdle
    /\ LaterIdleExcept("call")
    /\ pc = "c_start"
    /\ \E n \in 0..MaxTextLen, module \in {"helpers", "merge"} :
          \E text \in [1..n -> {"a", " ", "\n", "\\x00", "<", ">"}] :
              call = [module |-> module, text |-> text]
    /\ rets = <<>>

\* clean_text(text)
CleanText ==
    /\ pc = "c_start"
    /\ rets' = <<CleanTextOf(call.module, call.text)>>
    /\ pc' = "c_once"
    /\ UNCHANGED <<call, retry, scrape, cleanerVars, relVars, qualVars, sentVars,
                   dateVars, runVars, batchVars, postVars>>

\* clean_text of the cleaned text, as when cleaned data is cleaned again
CleanTextAgain ==
    /\ pc = "c_once"
    /\ rets' = Append(rets, CleanTextOf(call.module, rets[1]))
    /\ pc' = "c_twice"
    /\ UNCHANGED <<call, retry, scrape, cleanerVars, relVars, qualVars, sentVars,
                   dateVars, runVars, batchVars, postVars>>

NextClean == CleanText \/ CleanTextAgain

SpecClean == InitClean /\ [][NextClean]_vars

-----------------------------------------------------------------------------
(* Properties of clean_text                                                 *)

NoControl(s) == \A i \in 1..Len(s) : s[i] \notin ControlChars

NoDoubleSpace(s) ==
    \A i \in 1..(Len(s) - 1) : ~(s[i] \in Whitespace /\ s[i + 1] \in Whitespace)

Trimmed(s) == s = <<>> \/ (s[1] \notin Whitespace /\ s[Len(s)] \notin Whitespace)

\* C25: the result of clean_text has no control character, no two consecutive
\* whitespace characters and no leading or trailing whitespace, and cleaning it
\* again returns it unchanged.
C25_CleanTextShape ==
    /\ pc \in {"c_once", "c_twice"} =>
          NoControl(rets[1]) /\ NoDoubleSpace(rets[1]) /\ Trimmed(rets[1])
    /\ pc = "c_twice" => rets[2] = rets[1]


-----------------------------------------------------------------------------
(* analytics/data_cleaner.py: two clean_posts calls on one DataCleaner      *)

MaxSamePosts == 1    \* longest first batch of an instance that is used twice

\* the batches handed to the second call
SecondBatches ==
    { Indexed(b) : b \in
        { <<>>,
          << [url |-> <<"g">>, title |-> <<"A">>] >>,
          << [url |-> <<"g">>, title |-> <<" ">>] >>,
          << [url |-> <<"g">>, title |-> <<"A">>, comments |-> TwoComments,
              comment_count |-> 2] >>,
          << [url |-> <<"g">>, title |-> <<"A">>],
             [url |-> <<"g">>, title |-> <<"B">>] >> } }

InitSame ==
    /\ polars \in BOOLEAN
    /\ posts \in {Indexed(b) : b \in SeqsUpTo(PlainPosts, MaxSamePosts)}
    /\ stats = NewStats
    /\ result = <<>>
    /\ raised = FALSE
    /\ first = <<>>
    /\ merged = <<>>
    /\ pc = "start"
    /\ RelIdle
    /\ LaterIdle

\* cleaner.clean_posts(batch) on the instance that already cleaned a batch
CleanPostsSameInstance ==
    /\ pc = "cleaned"
    /\ ~raised
    /\ \E batch \in SecondBatches :
          LET r == clean_posts(batch, stats, polars) IN
          /\ posts' = batch
          /\ stats' = r.stats
          /\ result' = r.out
          /\ raised' = r.raised
    /\ pc' = "same_again"
    /\ UNCHANGED <<polars, first, merged, relVars, laterVars>>

NextSame == CleanPosts \/ CleanPostsSameInstance

SpecSame == InitSame /\ [][NextSame]_vars

\* C26: after a second clean_posts call on the same instance get_stats() reports
\* the four counts of that call alone, the counts a new instance gives for the
\* same batch.
C26_StatsOfLatestRun ==
    (pc = "same_again" /\ ~raised) => stats = clean_posts(posts, NewStats, polars).stats


\* C27: for every batch the Polars path and the pure-Python path of clean_posts
\* behave alike: both raise or neither does, and they return the same posts and
\* leave the same counts.
C27_PathsEquivalent ==
    pc = "cleaned" =>
        LET other == clean_posts(posts, NewStats, ~polars) IN
        /\ raised = other.raised
        /\ result = other.out
        /\ stats = other.stats


-----------------------------------------------------------------------------
(* analytics/quality_analyzer.py: _analyze_time_distribution.  A datetime is *)
(* a record [ok, y, m, d, secs, aware]: secs is the time of day in seconds  *)
(* and aware tells whether it carries a UTC offset.                         *)

MaxTimePosts == 2    \* most posts handed to _analyze_time_distribution

\* config.TIME_PERIODS
TIME_PERIODS ==
    << [name |-> "chuqi chongji",
        start |-> <<"2", "0", "2", "2", "-", "1", "2", "-", "0", "1">>,
        end |-> <<"2", "0", "2", "3", "-", "0", "3", "-", "3", "1">>],
       [name |-> "kuaisu fazhan",
        start |-> <<"2", "0", "2", "3", "-", "0", "4", "-", "0", "1">>,
        end |-> <<"2", "0", "2", "3", "-", "0", "9", "-", "3", "0">>],
       [name |-> "jishu puji",
        start |-> <<"2", "0", "2", "3", "-", "1", "0", "-", "0", "1">>,
        end |-> <<"2", "0", "2", "4", "-", "0", "3", "-", "3", "1">>],
       [name |-> "shendu yingyong",
        start |-> <<"2", "0", "2", "4", "-", "0", "4", "-", "0", "1">>,
        end |-> <<"2", "0", "2", "4", "-", "0", "9", "-", "3", "0">>],
       [name |-> "chengshu qi",
        start |-> <<"2", "0", "2", "4", "-", "1", "0", "-", "0", "1">>,
        end |-> <<"2", "0", "2", "5", "-", "0", "3", "-", "3", "1">>],
       [name |-> "dangqian zhuangtai",
        start |-> <<"2", "0", "2", "5", "-", "0", "4", "-", "0", "1">>,
        end |-> <<"2", "0", "2", "5", "-", "1", "1", "-", "3", "0">>] >>

\* str.replace('Z', '+00:00')
RECURSIVE ReplaceZ(_)
ReplaceZ(s) ==
    IF s = <<>> THEN <<>>
    ELSE (IF Head(s) = "Z" THEN <<"+", "0", "0", ":", "0", "0">> ELSE <<Head(s)>>)
         \o ReplaceZ(Tail(s))

\* the two digits at position i, -1 when they are not two digits
TwoDigits(s, i) ==
    IF i + 1 <= Len(s) /\ IsDigit(s[i]) /\ IsDigit(s[i + 1])
    THEN IntOf(SubSeq(s, i, i + 1)) ELSE 0 - 1

\* the time part HH[:MM[:SS]] of s from position i to its end: seconds of the
\* day, -1 when it is not such a time
IsoTime(s, i) ==
    LET n == Len(s) - i + 1
        hh == TwoDigits(s, i)
        mm == IF n >= 5 THEN TwoDigits(s, i + 3) ELSE 0
        ss == IF n >= 8 THEN TwoDigits(s, i + 6) ELSE 0
    IN IF /\ n \in {2, 5, 8}
          /\ hh \in 0..23 /\ mm \in 0..59 /\ ss \in 0..59
          /\ (n >= 5 => s[i + 2] = ":")
          /\ (n >= 8 => s[i + 5] = ":")
       THEN 3600 * hh + 60 * mm + ss ELSE 0 - 1

\* datetime.fromisoformat(s) for YYYY-MM-DD[*HH[:MM[:SS]][+HH:MM]] without a
\* fraction: the datetime, or NoMatch where it raises ValueError
fromisoformat(s) ==
    LET hasOffset == Len(s) >= 17 /\ s[Len(s) - 5] \in {"+", "-"}
        body == IF hasOffset THEN SubSeq(s, 1, Len(s) - 6) ELSE s
        y == IF DigitRun(s, 1) = 4 THEN IntOf(SubSeq(s, 1, 4)) ELSE 0
        m == TwoDigits(s, 6)
        d == TwoDigits(s, 9)
        secs == IF Len(body) = 10 THEN 0 ELSE IsoTime(body, 12)
    IN IF /\ Len(body) >= 10 /\ Len(body) # 11
          /\ y \in 1..9999 /\ s[5] = "-" /\ s[8] = "-"
          /\ m \in 1..12 /\ d \in 1..DaysInMonth(y, m)
          /\ secs >= 0
          /\ hasOffset => IsoTime(s, Len(s) - 4) >= 0 /\ Len(body) > 10
       THEN [ok |-> TRUE, y |-> y, m |-> m, d |-> d, secs |-> secs,
             aware |-> hasOffset]
       ELSE NoMatch

\* a <= b for two naive datetimes
NotAfter(a, b) ==
    LET day(t) == (12 * t.y + t.m) * 31 + t.d IN
    day(a) < day(b) \/ (day(a) = day(b) /\ a.secs <= b.secs)

\* lines 81-104 for one post: the index of the period that counts it, 0 when the
\* post is skipped, matches no period or the comparison raises TypeError
PeriodOf(post) ==
    LET created_at == Get(post, "created_at", NoneVal)
        post_date == fromisoformat(ReplaceZ(created_at.s))
        within == {k \in 1..Len(TIME_PERIODS) :
                      /\ NotAfter(fromisoformat(TIME_PERIODS[k].start), post_date)
                      /\ NotAfter(post_date, fromisoformat(TIME_PERIODS[k].end))}
    IN IF Falsy(created_at) \/ created_at.t # "str" THEN 0
       ELSE IF ~post_date.ok \/ post_date.aware \/ within = {} THEN 0
       ELSE CHOOSE k \in within : \A other \in within : k <= other

\* QualityAnalyzer._analyze_time_distribution
_analyze_time_distribution(ps) ==
    LET time_counts == [k \in 1..Len(TIME_PERIODS) |->
                           Cardinality({i \in 1..Len(ps) : PeriodOf(ps[i]) = k})]
    IN [time_periods |-> time_counts,
        total_with_time |-> SumSeq(time_counts),
        without_time |-> Len(ps) - SumSeq(time_counts)]

InitTime ==
    /\ CleanerIdle
    /\ RelIdle
    /\ LaterIdleExcept("call")
    /\ pc = "w_start"
    /\ \E ps \in SeqsUpTo(
              {Empty} \cup
              { [created_at |-> v] : v \in
                  {NoneVal, IntVal(5),
                   StrVal(<<"n", "o", "t", " ", "a", " ", "d", "a", "t", "e", "!">>),
                   StrVal(<<"2", "0", "2", "3", "-", "0", "2", "-", "3", "0">>)}
                  \cup
                  { StrVal(day \o time \o zone) :
                      day \in {<<"2", "0", "2", "2", "-", "1", "1", "-", "3", "0">>,
                               <<"2", "0", "2", "2", "-", "1", "2", "-", "0", "1">>,
                               <<"2", "0", "2", "3", "-", "0", "3", "-", "3", "1">>,
                               <<"2", "0", "2", "3", "-", "0", "4", "-", "0", "1">>,
                               <<"2", "0", "2", "5", "-", "1", "1", "-", "3", "0">>},
                      time \in {<<>>,
                                <<"T", "0", "0", ":", "0", "0", ":", "0", "0">>,
                                <<"T", "1", "0", ":", "3", "0", ":", "0", "0">>},
                      zone \in {<<>>, <<"Z">>} } },
              MaxTimePosts) :
          call = ps
    /\ rets = <<>>

\* analyze, line 34: 'time_distribution': self._analyze_time_distribution(posts)
AnalyzeTimeDistribution ==
    /\ pc = "w_start"
    /\ rets' = _analyze_time_distribution(call)
    /\ pc' = "w_done"
    /\ UNCHANGED <<call, retry, scrape, cleanerVars, relVars, qualVars, sentVars,
                   dateVars, runVars, batchVars, postVars>>

NextTime == AnalyzeTimeDistribution

SpecTime == InitTime /\ [][NextTime]_vars

-----------------------------------------------------------------------------
(* Properties of the period counts                                          *)

\* the posts with a non-empty created_at string
Dated ==
    {i \in 1..Len(call) :
        LET v == Get(call[i], "created_at", NoneVal) IN ~Falsy(v) /\ v.t = "str"}

\* the posts whose created_at is a valid timestamp, with or without the Z suffix,
\* on a day from the first period's start date to the last period's end date
InRange ==
    {i \in Dated :
        LET t == fromisoformat(ReplaceZ(call[i].created_at.s))
            day(x) == (12 * x.y + x.m) * 31 + x.d
        IN /\ t.ok
           /\ day(fromisoformat(TIME_PERIODS[1].start)) <= day(t)
           /\ day(t) <= day(fromisoformat(TIME_PERIODS[Len(TIME_PERIODS)].end))}

\* C28: no post is counted in more than one period, every post with a valid
\* timestamp within the configured range is counted in a period, and
\* total_with_time + without_time is the number of posts.
C28_PeriodBucketing ==
    pc = "w_done" =>
        /\ rets.total_with_time <= Cardinality(Dated)
        /\ rets.total_with_time >= Cardinality(InRange)
        /\ rets.total_with_time = SumSeq(rets.time_periods)
        /\ rets.total_with_time + rets.without_time = Len(call)


-----------------------------------------------------------------------------
(* scrapers/base_scraper.py: BaseScraper._request_with_retry.  retry holds   *)
(* the call: its method, whether kwargs still carries 'headers', the loop   *)
(* variable attempt, the position in the loop body, the outcome of every    *)
(* request made so far, and the value returned.                             *)

MAX_RETRIES == 3

\* what session.get / session.post followed by raise_for_status can do: give a
\* response, raise a RequestException (HTTPError, Timeout, ConnectionError), or
\* raise an exception of another class
RequestOutcomes == {"response", "http_error", "timeout", "other_exception"}

RequestExceptions == {"http_error", "timeout"}

\* the requests.Response object of the attempt numbered k
Response(k) == [t |-> "response", attempt |-> k]

\* the loop that never returns the response of a successful attempt
after_response_continue(r) ==
    [r EXCEPT !.at = IF r.attempt = MAX_RETRIES - 1 THEN "returned" ELSE "top",
              !.attempt = IF r.attempt = MAX_RETRIES - 1 THEN @ ELSE @ + 1,
              !.value = NoneVal]

\* lines 75-77: return response
after_response(r) ==
    [r EXCEPT !.at = "returned", !.value = Response(r.attempt)]

\* lines 79-85: the except clause
after_request_exception(r) ==
    IF r.attempt = MAX_RETRIES - 1
    THEN [r EXCEPT !.at = "returned", !.value = NoneVal]
    ELSE [r EXCEPT !.at = "top", !.attempt = @ + 1]

InitRetry ==
    /\ CleanerIdle
    /\ RelIdle
    /\ LaterIdleExcept("retry")
    /\ pc = "r_call"
    /\ \E method \in {"GET", "get", "POST"}, headers \in BOOLEAN :
          retry = [method |-> method, kwargs_headers |-> headers, attempt |-> 0,
                   at |-> "top", outcomes |-> <<>>, sent |-> <<>>,
                   value |-> NoneVal]

\* lines 52-75: the delay, the request and raise_for_status of one attempt
SendRequest ==
    /\ pc = "r_call"
    /\ retry.at = "top"
    /\ retry.attempt < MAX_RETRIES
    /\ \E outcome \in RequestOutcomes :
          retry' = [retry EXCEPT
                      !.at = "requested",
                      !.kwargs_headers = FALSE,
                      !.outcomes = Append(@, outcome),
                      !.sent = Append(@, [verb |-> IF retry.method \in {"GET", "get"}
                                                   THEN "get" ELSE "post",
                                          caller_headers |-> retry.kwargs_headers])]
    /\ UNCHANGED <<pc, call, rets, scrape, cleanerVars, relVars, qualVars, sentVars,
                   dateVars, runVars, batchVars, postVars>>

\* lines 76-85: return the response, handle the RequestException, or let another
\* exception leave the function
HandleOutcome ==
    /\ pc = "r_call"
    /\ retry.at = "requested"
    /\ LET outcome == retry.outcomes[Len(retry.outcomes)] IN
       retry' = CASE outcome = "response" -> after_response(retry)
                  [] outcome \in RequestExceptions -> after_request_exception(retry)
                  [] OTHER -> [retry EXCEPT !.at = "raised"]
    /\ pc' = IF retry'.at = "top" THEN "r_call" ELSE "r_done"
    /\ UNCHANGED <<call, rets, scrape, cleanerVars, relVars, qualVars, sentVars,
                   dateVars, runVars, batchVars, postVars>>

NextRetry == SendRequest \/ HandleOutcome

SpecRetry == InitRetry /\ [][NextRetry]_vars

\* every request ends (timeout=REQUEST_TIMEOUT) and every sleep is finite, so a
\* step that can be taken is taken
FairSpecRetry == SpecRetry /\ WF_vars(NextRetry)

-----------------------------------------------------------------------------
(* Properties of _request_with_retry                                        *)

Attempts == Len(retry.outcomes)

\* at most MAX_RETRIES attempts; a response ends the call: it is the last
\* attempt, the earlier ones failed, and it is the value returned; None is
\* returned exactly when every attempt raised a RequestException
RetrySafe ==
    /\ Attempts <= MAX_RETRIES
    /\ \A k \in 1..Attempts :
          retry.outcomes[k] = "response" =>
              /\ k = Attempts
              /\ retry.at \in {"requested", "returned"}
              /\ retry.at = "returned" => retry.value = Response(k - 1)
    /\ \A k \in 1..(Attempts - 1) : retry.outcomes[k] \in RequestExceptions
    /\ retry.at = "returned" =>
          (retry.value = NoneVal
              <=> \A k \in 1..Attempts : retry.outcomes[k] \in RequestExceptions)

RetryEnded == retry.at \in {"returned", "raised"}

\* C29: _request_with_retry ends after at most MAX_RETRIES attempts, returns the
\* response of the first successful attempt without a further attempt, and
\* returns None iff every attempt raised a RequestException.
C29_BoundedRetry == []RetrySafe /\ <>RetryEnded

C29_Witness ==
    /\ retry.at = "returned"
    /\ Attempts = 2
    /\ retry.value = Response(1)


-----------------------------------------------------------------------------
(* main.py: DataCollectionApp.scrape_data.  scrape holds the configuration  *)
(* file, the entries of the two lists in the order the loops visit them,    *)
(* the position in that order, all_posts, what happened to every url that   *)
(* was tried, the raw file and the exit code.  A JSON true / false / 1 of   *)
(* the configuration is written "true" / "false" / "1".                     *)

MaxTargets == 1      \* most entries of zhihu_posts in target_urls.json

\* scrape_post returned None
NonePost == [none |-> TRUE]

\* bool(value) of a manual_checked value
Truthy(v) == v \in {"true", "1"}

\* validate_post without the comment-count test
validate_post_fields_only(post_data) ==
    /\ "none" \notin DOMAIN post_data
    /\ \A field \in {"title", "url", "platform"} : field \in DOMAIN post_data

\* ZhihuScraper.validate_post / V2EXScraper.validate_post (the same body)
validate_post(post_data) ==
    /\ "none" \notin DOMAIN post_data
    /\ Get(post_data, "comment_count", 0) >= MIN_COMMENTS_PER_POST
    /\ \A field \in {"title", "url", "platform"} : field \in DOMAIN post_data

\* what scrape_post(url) of a platform's scraper can do
ScrapeOutcomes == {"none", "raises", "too_few_comments", "no_title", "complete"}

\* the value a scrape_post call returns, for the outcomes that return
ScrapedPost(platform, url, outcome) ==
    CASE outcome = "none" -> NonePost
      [] outcome = "too_few_comments" ->
            [platform |-> platform, url |-> url, title |-> <<"t">>,
             comment_count |-> MIN_COMMENTS_PER_POST - 1]
      [] outcome = "no_title" ->
            [platform |-> platform, url |-> url,
             comment_count |-> MIN_COMMENTS_PER_POST]
      [] OTHER ->
            [platform |-> platform, url |-> url, title |-> <<"t">>,
             comment_count |-> MIN_COMMENTS_PER_POST]

\* a JSON array, and a JSON value that is not an array, under a key of the file
JsonList(items) == [is_list |-> TRUE, items |-> items]
NotList == [is_list |-> FALSE, items |-> <<>>]

\* line 75 / 76: the list under the key, [] when the key is absent or not a list
TargetList(targets, key) ==
    IF key \in DOMAIN targets /\ targets[key].is_list THEN targets[key].items ELSE <<>>

\* lines 90-101: the entry is a mapping, confirmed by hand, with a url
Gated(post_info) ==
    /\ IsMapping(post_info)
    /\ Truthy(Get(post_info, "manual_checked", "false"))
    /\ Get(post_info, "url", <<>>) # <<>>

TargetEntries ==
    { NotDict,
      [url |-> <<"a">>],
      [manual_checked |-> "false", url |-> <<"a">>],
      [manual_checked |-> "true"],
      [manual_checked |-> "true", url |-> <<>>],
      [manual_checked |-> "true", url |-> <<"a">>, relevance_note |-> <<"n">>],
      [manual_checked |-> "1", url |-> <<"b">>] }

InitScrape ==
    /\ CleanerIdle
    /\ RelIdle
    /\ LaterIdleExcept("scrape")
    /\ pc = "g_start"
    /\ \E config \in
            {[exists |-> FALSE, targets |-> Empty],
             [exists |-> TRUE, targets |-> NotDict]}
            \cup
            { [exists |-> TRUE, targets |-> zhihu @@ v2ex] :
                zhihu \in {Empty, [zhihu_posts |-> NotList]}
                          \cup {[zhihu_posts |-> JsonList(l)] :
                                  l \in SeqsUpTo(TargetEntries, MaxTargets)},
                v2ex \in {Empty, [v2ex_posts |-> JsonList(<<>>)],
                          [v2ex_posts |-> JsonList(<<[manual_checked |-> "true",
                                                      url |-> <<"c">>]>>)]} } :
          scrape = [config |-> config, queue |-> <<>>, next |-> 1,
                    all_posts |-> <<>>, tried |-> <<>>, raw_file |-> <<>>,
                    exit_code |-> 0 - 1]

\* lines 61-80: read the configuration, or exit
LoadTargets ==
    /\ pc = "g_start"
    /\ IF ~scrape.config.exists \/ ~IsMapping(scrape.config.targets)
       THEN /\ scrape' = [scrape EXCEPT !.exit_code = 1]
            /\ pc' = "g_exit"
       ELSE /\ scrape' = [scrape EXCEPT !.queue =
                  LET zhihu_posts == TargetList(scrape.config.targets, "zhihu_posts")
                      v2ex_posts == TargetList(scrape.config.targets, "v2ex_posts")
                  IN [i \in 1..Len(zhihu_posts) |->
                         [platform |-> "zhihu", post_info |-> zhihu_posts[i]]]
                     \o [i \in 1..Len(v2ex_posts) |->
                         [platform |-> "v2ex", post_info |-> v2ex_posts[i]]]]
            /\ pc' = "g_loop"
    /\ UNCHANGED <<call, rets, retry, cleanerVars, relVars, qualVars, sentVars,
                   dateVars, runVars, batchVars, postVars>>

\* lines 89-116 and 125-151: one iteration of the loop over the entries
ScrapeEntry ==
    /\ pc = "g_loop"
    /\ scrape.next <= Len(scrape.queue)
    /\ LET item == scrape.queue[scrape.next]
           post_info == item.post_info
       IN IF ~Gated(post_info)
          THEN scrape' = [scrape EXCEPT !.next = @ + 1]
          ELSE \E outcome \in ScrapeOutcomes :
                 LET post_data == ScrapedPost(item.platform, post_info.url, outcome)
                     collected == outcome # "raises" /\ validate_post(post_data)
                 IN scrape' = [scrape EXCEPT
                       !.next = @ + 1,
                       !.tried = Append(@, [idx |-> scrape.next, outcome |-> outcome]),
                       !.all_posts =
                           IF collected
                           THEN Append(@, post_data
                                   @@ [is_relevant |-> TRUE,
                                       relevance_note |->
                                           Get(post_info, "relevance_note", <<>>),
                                       idx |-> scrape.next])
                           ELSE @]
    /\ UNCHANGED <<pc, call, rets, retry, cleanerVars, relVars, qualVars, sentVars,
                   dateVars, runVars, batchVars, postVars>>

\* lines 153-165: save the batch, or exit when nothing was collected
SaveRaw ==
    /\ pc = "g_loop"
    /\ scrape.next > Len(scrape.queue)
    /\ IF scrape.all_posts # <<>>
       THEN /\ scrape' = [scrape EXCEPT !.raw_file = scrape.all_posts]
            /\ pc' = "g_done"
       ELSE /\ scrape' = [scrape EXCEPT !.exit_code = 1]
            /\ pc' = "g_exit"
    /\ UNCHANGED <<call, rets, retry, cleanerVars, relVars, qualVars, sentVars,
                   dateVars, runVars, batchVars, postVars>>

NextScrape == LoadTargets \/ ScrapeEntry \/ SaveRaw

SpecScrape == InitScrape /\ [][NextScrape]_vars

-----------------------------------------------------------------------------
(* Properties of scrape_data                                                *)

\* the entry a collected post comes from
EntryOf(post) == scrape.queue[post.idx].post_info

\* the post is what the scraper returned for the entry's url and has at least
\* MIN_COMMENTS_PER_POST comments and the required fields
Validated(post) ==
    /\ \E k \in 1..Len(scrape.tried) :
          scrape.tried[k] = [idx |-> post.idx, outcome |-> "complete"]
    /\ post.url = EntryOf(post).url
    /\ post.platform = scrape.queue[post.idx].platform
    /\ post.comment_count >= MIN_COMMENTS_PER_POST
    /\ {"title", "url", "platform"} \subseteq DOMAIN post

\* the positions of the entries that pass the three tests of the loop
GatedEntries ==
    {i \in 1..Len(scrape.queue) :
        LET e == scrape.queue[i].post_info IN
        /\ "notdict" \notin DOMAIN e
        /\ "manual_checked" \in DOMAIN e /\ e.manual_checked \in {"true", "1"}
        /\ "url" \in DOMAIN e /\ e.url # <<>>}

ScrapeEnded == pc \in {"g_done", "g_exit"}

====
